---- MODULE Spec2Model ----
(***************************************************************************)
(* A model of the bongcloud chess engine core: the bitboard position       *)
(* (GameState), the 16-bit move encoding (GameMove), the transition        *)
(* function GameState::make, the bounded history stack (StateStack), the   *)
(* Game session built on it, and the FEN codec (parse_fen / to_fen).       *)
(*                                                                         *)
(* A 64-bit occupancy word is modelled as the set of the indices of its    *)
(* set bits (a subset of 0..63): |, & ! and popcount become union, set     *)
(* difference and cardinality.  A Rust Option is a sequence of length 0    *)
(* (None) or 1 (Some).  A Rust String is a sequence of one-character       *)
(* strings.  A panic ends the run: the variable panicked then holds the    *)
(* panic's message and no action is enabled.                               *)
(***************************************************************************)
EXTENDS Integers, Sequences, FiniteSets, TLC

VARIABLES
    fen,               \* the record text handed to parse_fen for Game::new
    overflow_checks,   \* build profile: TRUE = arithmetic overflow panics (debug), FALSE = it wraps (release)
    backing,           \* StateStack.backing: MAX_MOVESTACK_DEPTH slots of Option<GameState>
    size,              \* StateStack.size
    depth_from_start,  \* Game.depth_from_start (u8)
    game_move,         \* Option<u16>: the argument of the Game::make call just made, None after any other call
    out,               \* Option<String>: to_fen(current_state()) as last taken, None once the game moved on
    calls,             \* how many Game::make and Game::unmake calls the driver has made
    history,           \* the positions current_state() returned after Game::new and after each make still outstanding
    gs,                \* a GameState edited directly by add_piece, remove_piece and promote_piece
    iter,              \* a BitErator or BitBoardErator being drained: the word it was made from, its field bb, the items next() has yielded, whether next() has returned None
    call,              \* the last direct call of a GameMove, StateStack or GameState function: name, arguments, receiver before, result
    panicked           \* "" while running, else the message of the panic that ended the run

vars == <<fen, overflow_checks, backing, size, depth_from_start, game_move, out, calls, history, gs, iter, call, panicked>>

-----------------------------------------------------------------------------
(* Option and Result *)

None == <<>>
Some(x) == <<x>>
is_some(o) == o # <<>>
unwrap(o) == o[1]

Ok(x) == [panic |-> "", val |-> <<x>>]
Err(why) == [panic |-> why, val |-> <<>>]
is_ok(r) == r.panic = ""
value(r) == r.val[1]

-----------------------------------------------------------------------------
(* Fixed-width arithmetic (u8) *)

U8_MAX == 255

add_overflows(a, b) == a + b > U8_MAX
sub_overflows(a, b) == a < b
wrapping_add(a, b) == (a + b) % (U8_MAX + 1)
wrapping_sub(a, b) == (a - b + U8_MAX + 1) % (U8_MAX + 1)

-----------------------------------------------------------------------------
(* game_state.rs: Piece *)

WhitePawn == 0
WhiteBishop == 1
WhiteKnight == 2
WhiteRook == 3
WhiteQueen == 4
WhiteKing == 5
BlackPawn == 6
BlackBishop == 7
BlackKnight == 8
BlackRook == 9
BlackQueen == 10
BlackKing == 11
Null == 12

Pieces == WhitePawn .. BlackKing
SquareIdx == 0 .. 63

-----------------------------------------------------------------------------
(* bits/utils.rs *)

LSB3_BITMASK == 7

square_idx(rank_idx, file_idx) == rank_idx * 8 + file_idx
file_idx(sq) == sq % (LSB3_BITMASK + 1)
rank_idx(sq) == sq \div 8

-----------------------------------------------------------------------------
(* game_move.rs: GameMove *)

Quiet == 0
DoublePawnPush == 1
KingCastle == 2
QueenCastle == 3
Capture == 4
EpCapture == 5
NullMove == 6
KnightPromo == 8
BishopPromo == 9
RookPromo == 10
QueenPromo == 11
KnightPromoCapture == 12
BishopPromoCapture == 13
RookPromoCapture == 14
QueenPromoCapture == 15

METADATA_TO_MOVETYPE ==
    [code \in 0 .. 15 |-> IF code = 7 THEN NullMove ELSE code]

\* a | b
RECURSIVE bit_or(_, _)
bit_or(a, b) ==
    IF a = 0 THEN b
    ELSE IF b = 0 THEN a
    ELSE (IF a % 2 = 1 \/ b % 2 = 1 THEN 1 ELSE 0) + 2 * bit_or(a \div 2, b \div 2)

\* a << n in 16 bits
shl16(a, n) == (a * (2 ^ n)) % 65536

\* the data word of GameMove::new(fromsquare, tosquare, move_type)
GameMove_new(fromsquare, tosquare, move_type) ==
    bit_or(shl16(bit_or(shl16(bit_or(0, fromsquare), 6), tosquare), 4), move_type)

fromsquare_of(data) == data \div 1024
\* tosquare as it would be without the 6-bit mask
tosquare_unmasked(data) == data \div 16

tosquare_of(data) == (data \div 16) % 64
move_type_of(data) == METADATA_TO_MOVETYPE[data % 16]
is_capture(data) == (data \div 4) % 2 = 1
is_promo(data) == (data \div 8) % 2 = 1

\* promo_piece as it would be were bits 1:0 read in the order of the Piece enum
\* (bishop before knight)
promo_piece_enum_order(data, white_to_move) ==
    IF ~is_promo(data) THEN None
    ELSE Some((data % 4) + 1 + (IF white_to_move THEN 0 ELSE 6))

promo_piece(data, white_to_move) ==
    IF ~is_promo(data) THEN None
    ELSE CASE data % 4 = 0 -> Some(IF white_to_move THEN WhiteKnight ELSE BlackKnight)
           [] data % 4 = 1 -> Some(IF white_to_move THEN WhiteBishop ELSE BlackBishop)
           [] data % 4 = 2 -> Some(IF white_to_move THEN WhiteRook ELSE BlackRook)
           [] data % 4 = 3 -> Some(IF white_to_move THEN WhiteQueen ELSE BlackQueen)

-----------------------------------------------------------------------------
(* game_state.rs: PieceBitBoards (the square -> piece reverse index) *)

PieceBitBoards_new == [sq \in SquareIdx |-> Null]

PieceBitBoards_get(map, sq) == IF map[sq] = Null THEN None ELSE Some(map[sq])

PieceBitBoards_remove(map, sq) == [map EXCEPT ![sq] = Null]

PieceBitBoards_put(map, sq, pi) == [map EXCEPT ![sq] = pi]

-----------------------------------------------------------------------------
(* game_state.rs: GameState *)

GameState_new(bbs, white_to_move, ep_square, halfmove_clock, fullmove_clock, castlerights) ==
    [bbs |-> bbs,
     white_to_move |-> white_to_move,
     ep_square |-> ep_square,
     halfmove_clock |-> halfmove_clock,
     fullmove_clock |-> fullmove_clock,
     castlerights |-> castlerights,
     occupancy |-> PieceBitBoards_new]

new_empty ==
    [bbs |-> [k \in Pieces |-> {}],
     white_to_move |-> TRUE,
     ep_square |-> None,
     halfmove_clock |-> 0,
     fullmove_clock |-> 1,
     castlerights |-> [i \in 0 .. 3 |-> TRUE],
     occupancy |-> PieceBitBoards_new]

occupying_piece(s, sq) == PieceBitBoards_get(s.occupancy, sq)

\* add_piece as it would be were only the reverse index written
add_piece_index_only(s, piece, sq) ==
    [s EXCEPT !.occupancy = PieceBitBoards_put(s.occupancy, sq, piece)]

\* sq must be below 64: the callers check the index the code would abort on
add_piece(s, piece, sq) ==
    [s EXCEPT !.occupancy = PieceBitBoards_put(s.occupancy, sq, piece),
              !.bbs[piece] = @ \cup {sq}]

remove_piece(s, sq) ==
    IF ~is_some(PieceBitBoards_get(s.occupancy, sq)) THEN s
    ELSE [s EXCEPT !.occupancy = PieceBitBoards_remove(s.occupancy, sq),
                   !.bbs[s.occupancy[sq]] = @ \ {sq}]

\* the value remove_piece would return were the reverse index read after the removal
removed_piece_read_after(s, sq) == PieceBitBoards_get(remove_piece(s, sq).occupancy, sq)

\* the value remove_piece returns
removed_piece(s, sq) == PieceBitBoards_get(s.occupancy, sq)

promote_piece(s, sq, new_piece) == add_piece(remove_piece(s, sq), new_piece, sq)

-----------------------------------------------------------------------------
(* game_state.rs: GameState::make *)

castle_color_flag(self) == IF self.white_to_move THEN 0 ELSE 2

king_from_sq(self) == IF self.white_to_move THEN 4 ELSE 60

castling_king(self) == IF self.white_to_move THEN WhiteKing ELSE BlackKing

king_to_sq(move_type, white_to_move) ==
    CASE move_type = QueenCastle /\ white_to_move -> 2
      [] move_type = KingCastle /\ white_to_move -> 6
      [] move_type = QueenCastle /\ ~white_to_move -> 58
      [] move_type = KingCastle /\ ~white_to_move -> 62
      [] OTHER -> 100

castling_rook(self) == IF self.white_to_move THEN WhiteRook ELSE BlackRook

rook_from_sq(move_type, white_to_move) ==
    CASE move_type = QueenCastle /\ white_to_move -> 0
      [] move_type = KingCastle /\ white_to_move -> 7
      [] move_type = QueenCastle /\ ~white_to_move -> 56
      [] move_type = KingCastle /\ ~white_to_move -> 63
      [] OTHER -> 100

\* the rook's landing squares with the two castling sides exchanged
rook_to_sq_sides_exchanged(move_type, white_to_move) ==
    CASE move_type = QueenCastle /\ white_to_move -> 5
      [] move_type = KingCastle /\ white_to_move -> 3
      [] move_type = QueenCastle /\ ~white_to_move -> 61
      [] move_type = KingCastle /\ ~white_to_move -> 59
      [] OTHER -> 100

rook_to_sq(move_type, white_to_move) ==
    CASE move_type = QueenCastle /\ white_to_move -> 3
      [] move_type = KingCastle /\ white_to_move -> 5
      [] move_type = QueenCastle /\ ~white_to_move -> 59
      [] move_type = KingCastle /\ ~white_to_move -> 61
      [] OTHER -> 100

\* the castling branch as it would be were the two flags assigned true
set_castle_rights(rights, flag) ==
    [rights EXCEPT ![flag + 0] = TRUE, ![flag + 1] = TRUE]

\* lines 203-205: both rights of the side that castled
clear_castle_rights(rights, flag) ==
    [rights EXCEPT ![flag + 0] = FALSE, ![flag + 1] = FALSE]

\* lines 208 and 253
flip_side(white_to_move) == ~white_to_move

\* the full-move counter as it would be were it advanced after white's move
fullmove_clock_after_white(self) ==
    IF self.white_to_move THEN self.fullmove_clock + 1 ELSE self.fullmove_clock

\* lines 209 and 254 (u32; the model's counters stay far below 2^32)
next_fullmove_clock(self) ==
    IF ~self.white_to_move THEN self.fullmove_clock + 1 ELSE self.fullmove_clock

\* lines 210 and 255: the u8 addition self.halfmove_clock + 1 is evaluated only
\* when the clock is not reset
halfmove_overflows(self, reset_halfmove_clock) ==
    ~reset_halfmove_clock /\ add_overflows(self.halfmove_clock, 1)

\* the half-move clock as it would be were it never reset
halfmove_clock_never_reset(self, reset_halfmove_clock) ==
    wrapping_add(self.halfmove_clock, 1)

next_halfmove_clock(self, reset_halfmove_clock) ==
    IF reset_halfmove_clock THEN 0 ELSE wrapping_add(self.halfmove_clock, 1)

\* lines 170-213: the castling branch
make_castle(self, move_type, checks) ==
    LET w == self.white_to_move
        s1 == remove_piece(self, king_from_sq(self))
        s2 == add_piece(s1, castling_king(self), king_to_sq(move_type, w))
        s3 == remove_piece(s2, rook_from_sq(move_type, w))
        s4 == add_piece(s3, castling_rook(self), rook_to_sq(move_type, w))
    IN  IF checks /\ halfmove_overflows(self, FALSE)
        THEN Err("attempt to add with overflow")
        ELSE Ok([s4 EXCEPT
                   !.castlerights = clear_castle_rights(@, castle_color_flag(self)),
                   !.white_to_move = flip_side(w),
                   !.fullmove_clock = next_fullmove_clock(self),
                   !.halfmove_clock = next_halfmove_clock(self, FALSE)])

\* lines 223-229: the square whose occupant a capture removes, before the u8
\* arithmetic is reduced (ep_overflows tells whether it leaves 0..255)
ep_shift_overflows(self) ==
    IF self.white_to_move THEN add_overflows(unwrap(self.ep_square), 8)
    ELSE sub_overflows(unwrap(self.ep_square), 8)

\* the captured square as it would be were it the destination for every capture
cap_sq_destination(self, move_type, tosquare) == tosquare

cap_sq(self, move_type, tosquare) ==
    IF move_type = EpCapture
    THEN IF self.white_to_move THEN wrapping_add(unwrap(self.ep_square), 8)
         ELSE wrapping_sub(unwrap(self.ep_square), 8)
    ELSE tosquare

\* lines 239-240
is_pawn(moving) == moving = WhitePawn \/ moving = BlackPawn

\* lines 250-252
new_ep_overflows(self, move_type, tosquare) ==
    move_type = DoublePawnPush /\ self.white_to_move /\ sub_overflows(tosquare, 8)

\* the en-passant target as it would be were the input's target kept by a move
\* that is not a double pawn push
new_ep_square_carried(self, move_type, tosquare) ==
    IF move_type # DoublePawnPush THEN self.ep_square
    ELSE IF self.white_to_move THEN Some(wrapping_sub(tosquare, 8))
         ELSE Some(wrapping_add(tosquare, 8))

new_ep_square(self, move_type, tosquare) ==
    IF move_type # DoublePawnPush THEN None
    ELSE IF self.white_to_move THEN Some(wrapping_sub(tosquare, 8))
         ELSE Some(wrapping_add(tosquare, 8))

\* lines 258-259 (the same flag is read twice)
has_castlerights(self) ==
    self.castlerights[castle_color_flag(self) + 1] \/ self.castlerights[castle_color_flag(self) + 1]

\* the rights as they would be were both rights of a side cleared when its king moves
rook_move_castlerights_king_too(self, rights, moving, fromsquare) ==
    IF moving = WhiteKing THEN [rights EXCEPT ![0] = FALSE, ![1] = FALSE]
    ELSE IF moving = BlackKing THEN [rights EXCEPT ![2] = FALSE, ![3] = FALSE]
    ELSE IF has_castlerights(self) /\ (moving = WhiteRook \/ moving = BlackRook)
    THEN CASE moving = WhiteRook /\ fromsquare = 0 -> [rights EXCEPT ![0] = FALSE]
           [] moving = WhiteRook /\ fromsquare = 7 -> [rights EXCEPT ![1] = FALSE]
           [] moving = BlackRook /\ fromsquare = 63 -> [rights EXCEPT ![3] = FALSE]
           [] moving = BlackRook /\ fromsquare = 56 -> [rights EXCEPT ![3] = FALSE]
           [] OTHER -> rights
    ELSE rights

\* lines 260-268
rook_move_castlerights(self, rights, moving, fromsquare) ==
    IF has_castlerights(self) /\ (moving = WhiteRook \/ moving = BlackRook)
    THEN CASE moving = WhiteRook /\ fromsquare = 0 -> [rights EXCEPT ![0] = FALSE]
           [] moving = WhiteRook /\ fromsquare = 7 -> [rights EXCEPT ![1] = FALSE]
           [] moving = BlackRook /\ fromsquare = 63 -> [rights EXCEPT ![3] = FALSE]
           [] moving = BlackRook /\ fromsquare = 56 -> [rights EXCEPT ![3] = FALSE]
           [] OTHER -> rights
    ELSE rights

\* the capture step as it would be were the captured piece left in place
capture_step_skipped(self, new_state, data) == new_state

\* lines 222-232: the capture step; the position is new_state so far
capture_step(self, new_state, data) ==
    IF is_capture(data)
    THEN remove_piece(new_state, cap_sq(self, move_type_of(data), tosquare_of(data)))
    ELSE new_state

\* lines 235-236
move_step(new_state, moving, fromsquare, tosquare) ==
    add_piece(remove_piece(new_state, fromsquare), moving, tosquare)

\* the promotion step as it would be were the moved piece left as it is
promo_step_skipped(self, new_state, data) == new_state

\* lines 243-247
promo_step(self, new_state, data) ==
    IF is_promo(data)
    THEN promote_piece(new_state, tosquare_of(data), unwrap(promo_piece(data, self.white_to_move)))
    ELSE new_state

\* lines 215-270: every move that is not a castling move
make_ordinary(self, data, checks) ==
    LET move_type == move_type_of(data)
        fromsquare == fromsquare_of(data)
        tosquare == tosquare_of(data)
        moving_opt == occupying_piece(self, fromsquare)
        moving == unwrap(moving_opt)
        ep_capture == is_capture(data) /\ move_type = EpCapture
        reset_halfmove_clock == is_capture(data) \/ is_pawn(moving)
        s1 == capture_step(self, self, data)
        s2 == move_step(s1, moving, fromsquare, tosquare)
        s3 == promo_step(self, s2, data)
    IN  IF ~is_some(moving_opt)
        THEN Err("Illegal move; no piece on fromsquare")
        ELSE IF ep_capture /\ ~is_some(self.ep_square)
        THEN Err("called Option::unwrap() on a None value")
        ELSE IF ep_capture /\ checks /\ ep_shift_overflows(self)
        THEN Err("attempt to add or subtract with overflow")
        ELSE IF ep_capture /\ cap_sq(self, move_type, tosquare) >= 64
        THEN Err("index out of bounds")
        ELSE IF checks /\ new_ep_overflows(self, move_type, tosquare)
        THEN Err("attempt to subtract with overflow")
        ELSE IF checks /\ halfmove_overflows(self, reset_halfmove_clock)
        THEN Err("attempt to add with overflow")
        ELSE Ok([s3 EXCEPT
                   !.ep_square = new_ep_square(self, move_type, tosquare),
                   !.white_to_move = flip_side(self.white_to_move),
                   !.fullmove_clock = next_fullmove_clock(self),
                   !.halfmove_clock = next_halfmove_clock(self, reset_halfmove_clock),
                   !.castlerights = rook_move_castlerights(self, @, moving, fromsquare)])

\* lines 162-271
make(self, data, checks) ==
    IF move_type_of(data) = QueenCastle \/ move_type_of(data) = KingCastle
    THEN make_castle(self, move_type_of(data), checks)
    ELSE make_ordinary(self, data, checks)

-----------------------------------------------------------------------------
(* fen.rs: tables *)

FEN_PIECES ==
    << <<"P", WhitePawn>>, <<"B", WhiteBishop>>, <<"N", WhiteKnight>>,
       <<"R", WhiteRook>>, <<"Q", WhiteQueen>>, <<"K", WhiteKing>>,
       <<"p", BlackPawn>>, <<"b", BlackBishop>>, <<"n", BlackKnight>>,
       <<"r", BlackRook>>, <<"q", BlackQueen>>, <<"k", BlackKing>> >>

FEN_RANKS ==
    << <<"a", 0>>, <<"b", 1>>, <<"c", 2>>, <<"d", 3>>,
       <<"e", 4>>, <<"f", 5>>, <<"g", 6>>, <<"h", 7>> >>

FEN_FILES ==
    << <<"1", 0>>, <<"2", 1>>, <<"3", 2>>, <<"4", 3>>,
       <<"5", 4>>, <<"6", 5>>, <<"7", 6>>, <<"8", 7>> >>

\* the first entry of a table whose left (col = 1) or right (col = 2) member is x
lookup(table, col, x) ==
    IF \E i \in 1 .. Len(table) : table[i][col] = x
    THEN Some(table[CHOOSE i \in 1 .. Len(table) :
                      /\ table[i][col] = x
                      /\ \A j \in 1 .. (i - 1) : table[j][col] # x][3 - col])
    ELSE None

-----------------------------------------------------------------------------
(* Rust library text functions used by fen.rs *)

DecimalDigits == <<"0", "1", "2", "3", "4", "5", "6", "7", "8", "9">>

is_digit(c) == \E i \in 1 .. 10 : DecimalDigits[i] = c
digit_value(c) == (CHOOSE i \in 1 .. 10 : DecimalDigits[i] = c) - 1

\* format!("{}", n) of an unsigned integer
RECURSIVE format_uint(_)
format_uint(n) ==
    IF n < 10 THEN <<DecimalDigits[n + 1]>>
    ELSE Append(format_uint(n \div 10), DecimalDigits[(n % 10) + 1])

\* str::split(sep): the pieces between the separators, empty pieces included
RECURSIVE split_from(_, _, _, _)
split_from(s, sep, i, cur) ==
    IF i > Len(s) THEN <<cur>>
    ELSE IF s[i] = sep THEN <<cur>> \o split_from(s, sep, i + 1, <<>>)
    ELSE split_from(s, sep, i + 1, Append(cur, s[i]))

split(s, sep) == split_from(s, sep, 1, <<>>)

\* Vec<String>::join(sep)
RECURSIVE join(_, _)
join(parts, sep) ==
    IF Len(parts) = 0 THEN <<>>
    ELSE IF Len(parts) = 1 THEN parts[1]
    ELSE parts[1] \o <<sep>> \o join(Tail(parts), sep)

str_contains(s, c) == \E i \in 1 .. Len(s) : s[i] = c

\* str::trim for the one whitespace character the records hold
RECURSIVE trim_start(_)
trim_start(s) == IF Len(s) > 0 /\ s[1] = " " THEN trim_start(Tail(s)) ELSE s

RECURSIVE trim_end(_)
trim_end(s) ==
    IF Len(s) > 0 /\ s[Len(s)] = " " THEN trim_end(SubSeq(s, 1, Len(s) - 1)) ELSE s

trim(s) == trim_end(trim_start(s))

RECURSIVE strip_zeros(_)
strip_zeros(s) == IF Len(s) > 1 /\ s[1] = "0" THEN strip_zeros(Tail(s)) ELSE s

RECURSIVE digits_value(_)
digits_value(s) ==
    IF Len(s) = 0 THEN 0
    ELSE digits_value(SubSeq(s, 1, Len(s) - 1)) * 10 + digit_value(s[Len(s)])

\* a < b for two digit strings of the same length
RECURSIVE digits_less(_, _)
digits_less(a, b) ==
    IF Len(a) = 0 THEN FALSE
    ELSE IF a[1] # b[1] THEN digit_value(a[1]) < digit_value(b[1])
    ELSE digits_less(Tail(a), Tail(b))

\* str::parse::<uN>() for the unsigned type whose largest value is written max_text:
\* an optional "+", then one or more decimal digits, failing on overflow
parse_uint(s, max_text) ==
    LET body == IF Len(s) > 0 /\ s[1] = "+" THEN Tail(s) ELSE s
        sig == strip_zeros(body)
    IN  IF Len(body) = 0 THEN None
        ELSE IF \E i \in 1 .. Len(body) : ~is_digit(body[i]) THEN None
        ELSE IF Len(sig) > Len(max_text) THEN None
        ELSE IF Len(sig) = Len(max_text) /\ digits_less(max_text, sig) THEN None
        ELSE Some(digits_value(sig))

U8_MAX_TEXT == <<"2", "5", "5">>
U32_MAX_TEXT == <<"4", "2", "9", "4", "9", "6", "7", "2", "9", "5">>

-----------------------------------------------------------------------------
(* fen.rs: serialize_utils *)

\* the castling field as it would be were "-" written when no right is held
ser_castle_rights_dash(game_state) ==
    IF \A i \in 0 .. 3 : ~game_state.castlerights[i] THEN <<"-">>
    ELSE (IF game_state.castlerights[0] THEN <<"K">> ELSE <<>>)
         \o (IF game_state.castlerights[1] THEN <<"Q">> ELSE <<>>)
         \o (IF game_state.castlerights[2] THEN <<"k">> ELSE <<>>)
         \o (IF game_state.castlerights[3] THEN <<"q">> ELSE <<>>)

ser_castle_rights(game_state) ==
    (IF game_state.castlerights[0] THEN <<"K">> ELSE <<>>)
    \o (IF game_state.castlerights[1] THEN <<"Q">> ELSE <<>>)
    \o (IF game_state.castlerights[2] THEN <<"k">> ELSE <<>>)
    \o (IF game_state.castlerights[3] THEN <<"q">> ELSE <<>>)

ser_side_to_move(game_state) == IF game_state.white_to_move THEN <<"w">> ELSE <<"b">>

char_from_piece(p) == lookup(FEN_PIECES, 2, p)
char_from_file(file) == lookup(FEN_FILES, 2, file)
char_from_rank(rank) == lookup(FEN_RANKS, 2, rank)

\* lines 104-111: both indices are taken with file_idx
ser_ep_square(game_state) ==
    IF ~is_some(game_state.ep_square) THEN <<"-">>
    ELSE LET ep_square == unwrap(game_state.ep_square)
             file == file_idx(ep_square)
             rank == file_idx(ep_square)
         IN  <<unwrap(char_from_file(file)), unwrap(char_from_rank(rank))>>

ser_halfmove_clock(game_state) == format_uint(game_state.halfmove_clock)
ser_fullmove_clock(game_state) == format_uint(game_state.fullmove_clock)

\* lines 128-144: the files file .. 7 of one rank, cur_empty_count empty squares pending
RECURSIVE ser_rank(_, _, _, _)
ser_rank(game_state, rank, file, cur_empty_count) ==
    IF file > 7 THEN <<>>
    ELSE LET occ == occupying_piece(game_state, square_idx(rank, file))
             piece_text ==
                 IF is_some(occ)
                 THEN (IF cur_empty_count > 0 THEN format_uint(cur_empty_count) ELSE <<>>)
                      \o <<unwrap(char_from_piece(unwrap(occ)))>>
                 ELSE <<>>
             count == IF is_some(occ) THEN 0 ELSE cur_empty_count + 1
             end_text == IF file = 7 /\ count > 0 THEN format_uint(count) ELSE <<>>
         IN  piece_text \o end_text \o ser_rank(game_state, rank, file + 1, count)

\* lines 124-148: ranks 7 down to rank, a '/' after each but rank 0
RECURSIVE ser_ranks_from(_, _)
ser_ranks_from(game_state, rank) ==
    ser_rank(game_state, rank, 0, 0)
    \o (IF rank # 0 THEN <<"/">> \o ser_ranks_from(game_state, rank - 1) ELSE <<>>)

ser_bbs(game_state) == ser_ranks_from(game_state, 7)

\* to_fen with the two clocks in the other order
to_fen_halfmove_first(game_state) ==
    join(<<ser_bbs(game_state),
           ser_side_to_move(game_state),
           ser_castle_rights(game_state),
           ser_ep_square(game_state),
           ser_halfmove_clock(game_state),
           ser_fullmove_clock(game_state)>>, " ")

to_fen(game_state) ==
    join(<<ser_bbs(game_state),
           ser_side_to_move(game_state),
           ser_castle_rights(game_state),
           ser_ep_square(game_state),
           ser_fullmove_clock(game_state),
           ser_halfmove_clock(game_state)>>, " ")

-----------------------------------------------------------------------------
(* fen.rs: parse_utils *)

white_to_move_from(to_move_str) ==
    IF to_move_str = <<"w">> THEN Ok(TRUE)
    ELSE IF to_move_str = <<"b">> THEN Ok(FALSE)
    ELSE Err("Could not parse player to move.")

castlerights_from(castle_str) ==
    [i \in 0 .. 3 |->
        CASE i = 0 -> str_contains(castle_str, "K")
          [] i = 1 -> str_contains(castle_str, "Q")
          [] i = 2 -> str_contains(castle_str, "k")
          [] i = 3 -> str_contains(castle_str, "q")]

piece_from_char(c) == lookup(FEN_PIECES, 1, c)
file_from_char(c) == lookup(FEN_FILES, 1, c)
rank_from_char(c) == lookup(FEN_RANKS, 1, c)

\* lines 230-235: Ok(None), Ok(Some(square)) or the panic of an unwrap
ep_square_from(ep_str) ==
    IF ep_str = <<"-">> THEN Ok(None)
    ELSE IF Len(ep_str) < 1 \/ ~is_some(file_from_char(ep_str[1]))
    THEN Err("called Option::unwrap() on a None value")
    ELSE IF Len(ep_str) < 2 \/ ~is_some(rank_from_char(ep_str[2]))
    THEN Err("called Option::unwrap() on a None value")
    ELSE Ok(Some(square_idx(unwrap(rank_from_char(ep_str[2])),
                            unwrap(file_from_char(ep_str[1])))))

\* lines 210-224: the characters j .. of rank group i, the next piece going to file file
RECURSIVE add_rank(_, _, _, _, _, _)
add_rank(game_state, rank, i, j, file, checks) ==
    IF j > Len(rank) THEN Ok(game_state)
    ELSE IF is_digit(rank[j])
    THEN add_rank(game_state, rank, i, j + 1, file + digit_value(rank[j]), checks)
    ELSE LET piece == piece_from_char(rank[j])
             file_u8 == file % (U8_MAX + 1)
             sq == wrapping_add(i * 8, file_u8)
         IN  IF ~is_some(piece) THEN Err("called Option::unwrap() on a None value")
             ELSE IF checks /\ add_overflows(i * 8, file_u8)
             THEN Err("attempt to add with overflow")
             ELSE IF sq >= 64 THEN Err("index out of bounds")
             ELSE add_rank(add_piece(game_state, unwrap(piece), sq), rank, i, j + 1, file + 1, checks)

\* lines 206-225: the rank groups i .. 7 of ranks (already reversed)
RECURSIVE add_ranks(_, _, _, _)
add_ranks(game_state, ranks, i, checks) ==
    IF i > 7 THEN Ok(game_state)
    ELSE LET r == add_rank(game_state, ranks[i + 1], i, 1, 0, checks)
         IN  IF is_ok(r) THEN add_ranks(value(r), ranks, i + 1, checks) ELSE r

\* lines 201-227: the swaps index past a shorter vector, the length test stops a longer one
add_pieces(pos_str, game_state, checks) ==
    LET ranks == split(pos_str, "/")
        swapped == [k \in 1 .. 8 |-> ranks[9 - k]]
    IN  IF Len(ranks) < 8 THEN Err("index out of bounds")
        ELSE IF Len(ranks) # 8 THEN Err("Invalid number of ranks.")
        ELSE add_ranks(game_state, swapped, 0, checks)

\* lines 43-65
parse_fen(text, checks) ==
    LET fields == split(text, " ")
        fullmove == parse_uint(trim(fields[5]), U32_MAX_TEXT)
        halfmove == parse_uint(trim(fields[6]), U8_MAX_TEXT)
        to_move == white_to_move_from(fields[2])
        ep == ep_square_from(fields[4])
    IN  IF Len(fields) # 6 THEN Err("Invalid FEN string.")
        ELSE IF ~is_some(fullmove) THEN Err("Fullmove is not a string.")
        ELSE IF ~is_some(halfmove) THEN Err("Halfmove is not a string.")
        ELSE IF ~is_ok(to_move) THEN to_move
        ELSE IF ~is_ok(ep) THEN ep
        ELSE add_pieces(fields[1],
                        GameState_new([k \in Pieces |-> {}], value(to_move), value(ep),
                                      unwrap(halfmove), unwrap(fullmove),
                                      castlerights_from(fields[3])),
                        checks)

-----------------------------------------------------------------------------
(* game_state.rs: StateStack *)

MAX_MOVESTACK_DEPTH == 100

StateStack_new == [backing |-> [i \in 0 .. (MAX_MOVESTACK_DEPTH - 1) |-> None], size |-> 0]

\* push as it would be were the index taken modulo the capacity
push_wrapping(stack, elt) ==
    Ok([backing |-> [stack.backing EXCEPT ![stack.size % MAX_MOVESTACK_DEPTH] = Some(elt)],
        size |-> IF stack.size >= MAX_MOVESTACK_DEPTH THEN stack.size ELSE stack.size + 1])

\* lines 331-334: the write past the last slot is the out-of-bounds panic
push(stack, elt) ==
    IF stack.size >= MAX_MOVESTACK_DEPTH THEN Err("index out of bounds")
    ELSE Ok([backing |-> [stack.backing EXCEPT ![stack.size] = Some(elt)],
             size |-> stack.size + 1])

\* peek as it would be were the slot read the one at size
peek_at_size(stack) ==
    IF stack.size <= 0 THEN None
    ELSE IF stack.size >= MAX_MOVESTACK_DEPTH THEN None
    ELSE stack.backing[stack.size]

\* lines 338-343
peek(stack) ==
    IF stack.size <= 0 THEN None ELSE stack.backing[stack.size - 1]

\* pop as it would be with the size left as it was
pop_without_decrement(stack) ==
    IF stack.size <= 0 THEN Ok(<<stack, None>>)
    ELSE IF stack.size >= MAX_MOVESTACK_DEPTH THEN Err("index out of bounds")
    ELSE Ok(<<[backing |-> [stack.backing EXCEPT ![stack.size] = None],
               size |-> stack.size],
              stack.backing[stack.size]>>)

\* lines 346-354: the slot swapped with None is backing[size], one above the top;
\* Ok(<<stack after, returned Option>>) or the out-of-bounds panic
pop(stack) ==
    IF stack.size <= 0 THEN Ok(<<stack, None>>)
    ELSE IF stack.size >= MAX_MOVESTACK_DEPTH THEN Err("index out of bounds")
    ELSE Ok(<<[backing |-> [stack.backing EXCEPT ![stack.size] = None],
               size |-> stack.size - 1],
              stack.backing[stack.size]>>)

-----------------------------------------------------------------------------
(* game_state.rs: Game, as the state machine *)

stack == [backing |-> backing, size |-> size]

\* lines 70-72 (panics on an empty stack: callers test is_some(peek(stack)))
current_state == unwrap(peek(stack))

Running == panicked = ""

\* no iterator made
NoIter == [kind |-> "", word |-> {}, bb |-> {}, items |-> <<>>, done |-> FALSE]

\* no direct call made
NoCall == [fn |-> "", args |-> <<>>, before |-> <<>>, ret |-> <<>>]

Panic(why) ==
    /\ panicked' = why
    /\ UNCHANGED <<fen, overflow_checks, backing, size, depth_from_start, out, history, gs, iter, call>>

\* Game::new(parse_fen(text)) under the build profile checks (lines 46-53)
NewGame(text, checks) ==
    LET parsed == parse_fen(text, checks)
        pushed == push(StateStack_new, value(parsed))
    IN  /\ fen = text
        /\ overflow_checks = checks
        /\ game_move = None
        /\ out = None
        /\ calls = 0
        /\ depth_from_start = 0
        /\ gs = new_empty
        /\ iter = NoIter
        /\ call = NoCall
        /\ IF is_ok(parsed)
           THEN /\ backing = value(pushed).backing
                /\ size = value(pushed).size
                /\ history = <<value(parsed)>>
                /\ panicked = ""
           ELSE /\ backing = StateStack_new.backing
                /\ size = 0
                /\ history = <<>>
                /\ panicked = parsed.panic

\* Game::make(GameMove { data }) (lines 56-61)
MakeMove(data) ==
    /\ Running
    /\ game_move' = Some(data)
    /\ calls' = calls + 1
    /\ LET cur_state == peek(stack)
           next_state == make(unwrap(cur_state), data, overflow_checks)
           pushed == push(stack, value(next_state))
       IN  IF ~is_some(cur_state) THEN Panic("called Option::unwrap() on a None value")
           ELSE IF ~is_ok(next_state) THEN Panic(next_state.panic)
           ELSE IF ~is_ok(pushed) THEN Panic(pushed.panic)
           ELSE IF overflow_checks /\ add_overflows(depth_from_start, 1)
           THEN Panic("attempt to add with overflow")
           ELSE /\ backing' = value(pushed).backing
                /\ size' = value(pushed).size
                /\ depth_from_start' = wrapping_add(depth_from_start, 1)
                /\ history' = IF history = <<>> THEN <<>>
                              ELSE Append(history, unwrap(peek(value(pushed))))
                /\ out' = None
                /\ UNCHANGED <<fen, overflow_checks, gs, iter, call, panicked>>

\* Game::unmake() (lines 64-67)
Unmake ==
    /\ Running
    /\ calls' = calls + 1
    /\ game_move' = None
    /\ LET popped == pop(stack)
       IN  IF ~is_ok(popped) THEN Panic(popped.panic)
           ELSE IF overflow_checks /\ sub_overflows(depth_from_start, 1)
           THEN Panic("attempt to subtract with overflow")
           ELSE /\ backing' = value(popped)[1].backing
                /\ size' = value(popped)[1].size
                /\ depth_from_start' = wrapping_sub(depth_from_start, 1)
                /\ history' = IF Len(history) <= 1 THEN <<>>
                              ELSE SubSeq(history, 1, Len(history) - 1)
                /\ out' = None
                /\ UNCHANGED <<fen, overflow_checks, gs, iter, call, panicked>>

\* to_fen(&game.current_state()), as the integration test takes it
Serialize ==
    /\ Running
    /\ out = None
    /\ UNCHANGED <<game_move, calls>>
    /\ IF ~is_some(peek(stack)) THEN Panic("called Option::unwrap() on a None value")
       ELSE /\ out' = Some(to_fen(current_state))
            /\ UNCHANGED <<fen, overflow_checks, backing, size, depth_from_start, history, gs, iter, call, panicked>>

-----------------------------------------------------------------------------
(* Inputs of the Game specification *)

\* the castling field listing the rights numbered in S (1 = K, 2 = Q, 3 = k, 4 = q) in that order
RECURSIVE castle_field_from(_, _)
castle_field_from(S, i) ==
    IF i > 4 THEN <<>>
    ELSE (IF i \in S THEN <<<<"K", "Q", "k", "q">>[i]>> ELSE <<>>) \o castle_field_from(S, i + 1)

CastleFields == {castle_field_from(S, 1) : S \in SUBSET (1 .. 4)}

record(board, side, castle, ep, fullmove, halfmove) ==
    join(<<board, side, castle, ep, fullmove, halfmove>>, " ")

\* r3k2r/1P4p1/8/3pP3/5p2/8/1p2P1P1/R3K2R : kings and rooks at home, a pawn of each
\* side one step from promotion, pawns placed for double pushes and en-passant captures
BoardCastle ==
    <<"r", "3", "k", "2", "r", "/", "1", "P", "4", "p", "1", "/", "8", "/", "3", "p", "P", "3", "/", "5", "p", "2", "/", "8", "/", "1", "p", "2", "P", "1", "P", "1", "/", "R", "3", "K", "2", "R">>

\* rnbqkbnr/pppppppp/8/8/8/8/PPPPPPPP/RNBQKBNR
BoardStart ==
    <<"r", "n", "b", "q", "k", "b", "n", "r", "/", "p", "p", "p", "p", "p", "p", "p", "p", "/", "8", "/", "8", "/", "8", "/", "8", "/", "P", "P", "P", "P", "P", "P", "P", "P", "/", "R", "N", "B", "Q", "K", "B", "N", "R">>

\* the positions a Game starts from: every combination of castling rights, either side
\* to move, the en-passant target absent or d6 (written "4f" in this codec), and a
\* half-move clock that is small or one step from the top of its u8 range; and two
\* with a target ("7f" = 46, "5c" = 20) one rank away from a pawn (on 54, on 12)
StartFens ==
    {record(BoardCastle, <<"w">>, c, <<"4", "f">>, <<"1">>, <<"0">>) : c \in CastleFields}
    \cup {record(BoardCastle, <<"b">>, c, <<"-">>, <<"1", "2">>, <<"2", "5", "4">>) : c \in CastleFields}
    \cup {record(BoardStart, <<"w">>, <<"K", "Q", "k", "q">>, <<"-">>, <<"1">>, <<"0">>)}
    \cup {record(BoardCastle, <<"w">>, <<"K", "Q", "k", "q">>, <<"7", "f">>, <<"1">>, <<"0">>),
          record(BoardCastle, <<"b">>, <<"K", "Q", "k", "q">>, <<"5", "c">>, <<"1">>, <<"0">>)}

\* the moves offered to Game::make: <<fromsquare, tosquare>> pairs, each with the kinds listed
MovePairs ==
    {<<4, 6>>, <<4, 3>>, <<60, 59>>,                    \* king steps
     <<0, 3>>, <<7, 5>>, <<56, 59>>, <<63, 61>>,        \* rooks leaving their home squares
     <<0, 56>>, <<56, 0>>, <<7, 63>>,                   \* rook takes rook
     <<12, 28>>, <<54, 38>>, <<12, 20>>,                \* pawn pushes
     <<36, 43>>, <<29, 20>>, <<36, 35>>,                \* pawn captures, en passant or not
     <<49, 57>>, <<49, 56>>, <<9, 1>>, <<9, 0>>,        \* promotions
     <<49, 49>>, <<16, 17>>, <<1, 18>>}                 \* source = destination, empty source, a knight

KindsFor(pair) ==
    CASE pair \in {<<4, 6>>} -> {KingCastle, QueenCastle, Quiet}
      [] pair \in {<<4, 3>>, <<60, 59>>, <<1, 18>>} -> {Quiet, Capture}
      [] pair \in {<<0, 3>>, <<7, 5>>, <<56, 59>>, <<63, 61>>} -> {Quiet, DoublePawnPush}
      [] pair \in {<<0, 56>>, <<56, 0>>, <<7, 63>>} -> {Capture, Quiet}
      [] pair \in {<<12, 28>>, <<54, 38>>} -> {DoublePawnPush}
      [] pair \in {<<12, 20>>} -> {Quiet, 7}
      [] pair \in {<<36, 43>>, <<29, 20>>} -> {EpCapture}
      [] pair \in {<<36, 35>>} -> {Capture, NullMove}
      [] pair \in {<<49, 57>>, <<9, 1>>} -> {KnightPromo, BishopPromo, RookPromo, QueenPromo}
      [] pair \in {<<49, 56>>, <<9, 0>>} ->
            {KnightPromoCapture, BishopPromoCapture, RookPromoCapture, QueenPromoCapture}
      [] pair \in {<<49, 49>>} -> {QueenPromo}
      [] pair \in {<<16, 17>>} -> {Quiet}

Moves ==
    UNION {{GameMove_new(pair[1], pair[2], k) : k \in KindsFor(pair)} : pair \in MovePairs}

\* the moves offered after the first call
ReplyMoves ==
    {GameMove_new(4, 6, KingCastle), GameMove_new(4, 2, QueenCastle),
     GameMove_new(0, 3, Quiet), GameMove_new(63, 56, Capture),
     GameMove_new(12, 28, DoublePawnPush), GameMove_new(9, 0, QueenPromoCapture),
     GameMove_new(36, 43, EpCapture), GameMove_new(29, 20, EpCapture)}

MovesAt(n) == IF n = 0 THEN Moves ELSE ReplyMoves

MaxCalls == 3

Init == \E text \in StartFens, checks \in BOOLEAN : NewGame(text, checks)

Next ==
    \/ calls < MaxCalls /\ \E data \in MovesAt(calls) : MakeMove(data)
    \/ calls < MaxCalls /\ Unmake

Spec == Init /\ [][Next]_vars

-----------------------------------------------------------------------------
(* The codec specification: records are parsed, a few moves made, positions serialized *)

\* 8/8/8/8/8/8/8/8
BoardEmpty ==
    <<"8", "/", "8", "/", "8", "/", "8", "/", "8", "/", "8", "/", "8", "/", "8">>

\* 4k3/8/2p5/8/1P6/8/8/4K2R
BoardSparse ==
    <<"4", "k", "3", "/", "8", "/", "2", "p", "5", "/", "8", "/", "1", "P", "6", "/", "8", "/", "8", "/", "4", "K", "2", "R">>

\* rnbqkbnr/pppppppp/44/8/8/8/PPPPPPPP/RNBQKBNR : an empty rank written as two runs
BoardSplitRun ==
    <<"r", "n", "b", "q", "k", "b", "n", "r", "/", "p", "p", "p", "p", "p", "p", "p", "p", "/", "4", "4", "/", "8", "/", "8", "/", "8", "/", "P", "P", "P", "P", "P", "P", "P", "P", "/", "R", "N", "B", "Q", "K", "B", "N", "R">>

\* 8/8/8/8/8/8/8 : seven rank groups
BoardShort ==
    <<"8", "/", "8", "/", "8", "/", "8", "/", "8", "/", "8", "/", "8">>

\* 8/8/8/8/8/8/8/7x : a letter outside the piece table
BoardBadLetter ==
    <<"8", "/", "8", "/", "8", "/", "8", "/", "8", "/", "8", "/", "8", "/", "7", "x">>

\* 8/8/8/8/8/8/8/PPPPPPPPP : nine pieces in the last rank group
BoardLongRank ==
    <<"8", "/", "8", "/", "8", "/", "8", "/", "8", "/", "8", "/", "8", "/", "P", "P", "P", "P", "P", "P", "P", "P", "P">>

FenBoards ==
    {BoardStart, BoardCastle, BoardEmpty, BoardSparse,
     BoardSplitRun, BoardShort, BoardBadLetter, BoardLongRank}

FenSides == {<<"w">>, <<"b">>, <<"W">>}
FenCastles == CastleFields \cup {<<"-">>, <<"q", "K">>, <<"K", "x">>}
FenEps == {<<"-">>, <<"5", "c">>, <<"4", "f">>, <<"5", "e">>, <<"e", "3">>}
FenFullmoves == {<<"1">>, <<"1", "2">>, <<"0", "1">>, <<"+", "3">>}
FenHalfmoves == {<<"0">>, <<"3", "7">>, <<"2", "5", "5">>, <<"2", "5", "6">>, <<"0", "5">>}

\* every board and side; every castling and en-passant field; every clock text
FenRecords ==
    {record(b, s, <<"K", "Q", "k", "q">>, <<"-">>, <<"1">>, <<"0">>) : b \in FenBoards, s \in FenSides}
    \cup {record(BoardCastle, s, c, e, <<"1">>, <<"0">>) :
             s \in {<<"w">>, <<"b">>}, c \in FenCastles, e \in FenEps}
    \cup {record(b, <<"w">>, c, <<"-">>, f, h) :
             b \in {BoardStart, BoardSparse}, c \in {<<"K", "Q", "k", "q">>, <<"K", "q">>, <<>>},
             f \in FenFullmoves, h \in FenHalfmoves}

FenMoves ==
    {GameMove_new(12, 28, DoublePawnPush), GameMove_new(54, 38, DoublePawnPush),
     GameMove_new(7, 63, Capture), GameMove_new(4, 6, KingCastle)}

MaxFenCalls == 2

InitFen == \E text \in FenRecords, checks \in BOOLEAN : NewGame(text, checks)

NextFen ==
    \/ calls < MaxFenCalls /\ \E data \in FenMoves : MakeMove(data)
    \/ Serialize

SpecFen == InitFen /\ [][NextFen]_vars

-----------------------------------------------------------------------------
(* The long-game specification: one Game played until its history stack is full *)

\* the two king's knights go out and come back: g1-f3, g8-f6, f3-g1, f6-g8
LongMoves ==
    <<GameMove_new(6, 21, Quiet), GameMove_new(62, 45, Quiet),
      GameMove_new(21, 6, Quiet), GameMove_new(45, 62, Quiet)>>

\* the move made when depth moves are outstanding
LongMove(depth) == LongMoves[(depth % 4) + 1]

MaxLongCalls == 100

InitLong ==
    \E checks \in BOOLEAN :
        NewGame(record(BoardStart, <<"w">>, <<"K", "Q", "k", "q">>, <<"-">>, <<"1">>, <<"0">>), checks)

NextLong ==
    \/ calls < MaxLongCalls /\ size >= 1 /\ \E data \in {LongMove(size - 1)} : MakeMove(data)
    \/ calls < MaxLongCalls /\ Unmake

SpecLong == InitLong /\ [][NextLong]_vars

-----------------------------------------------------------------------------
(* Direct calls: the functions of GameMove, StateStack and GameState called one at *)
(* a time, the call and its result kept in call                                  *)

game_vars == <<fen, overflow_checks, backing, size, depth_from_start, game_move, out, calls, history>>

\* nothing built yet: no Game, an empty StateStack, GameState::new_empty()
Idle ==
    /\ fen = <<>>
    /\ overflow_checks \in BOOLEAN
    /\ backing = StateStack_new.backing
    /\ size = StateStack_new.size
    /\ depth_from_start = 0
    /\ game_move = None
    /\ out = None
    /\ calls = 0
    /\ history = <<>>
    /\ gs = new_empty
    /\ iter = NoIter
    /\ call = NoCall
    /\ panicked = ""

-----------------------------------------------------------------------------
(* The move specification: moves are packed and unpacked *)

\* the 15 values of MoveType
MoveTypes == (0 .. 15) \ {7}

\* the Square (u8) values handed to GameMove::new: the board and two values off it
NewSquares == SquareIdx \cup {64, 255}

\* every u16
RawMoves == 0 .. 65535

\* GameMove::new(fromsquare, tosquare, move_type), then fromsquare(), tosquare()
\* and move_type() of the move it returned
NewMove(fromsquare, tosquare, move_type) ==
    /\ call = NoCall
    /\ call' = [fn |-> "GameMove::new",
                args |-> <<fromsquare, tosquare, move_type>>,
                before |-> <<>>,
                ret |-> LET data == GameMove_new(fromsquare, tosquare, move_type)
                        IN  <<data, fromsquare_of(data), tosquare_of(data), move_type_of(data)>>]
    /\ UNCHANGED <<game_vars, gs, iter, panicked>>

\* GameMove::from_val(val), then move_type(), is_capture() and is_promo() of it
FromVal(val) ==
    /\ call = NoCall
    /\ call' = [fn |-> "GameMove::from_val",
                args |-> <<val>>,
                before |-> <<>>,
                ret |-> <<move_type_of(val), is_capture(val), is_promo(val)>>]
    /\ UNCHANGED <<game_vars, gs, iter, panicked>>

\* GameMove::from_val(val).promo_piece(white_to_move)
PromoPiece(val, white_to_move) ==
    /\ call = NoCall
    /\ call' = [fn |-> "GameMove::promo_piece",
                args |-> <<val, white_to_move>>,
                before |-> <<>>,
                ret |-> promo_piece(val, white_to_move)]
    /\ UNCHANGED <<game_vars, gs, iter, panicked>>

\* none of these functions does arithmetic that can overflow: one build profile
InitMove == Idle /\ overflow_checks

NextMove ==
    \/ call = NoCall /\ \E fromsquare \in NewSquares, tosquare \in NewSquares, move_type \in MoveTypes :
           NewMove(fromsquare, tosquare, move_type)
    \/ call = NoCall /\ \E val \in RawMoves : FromVal(val)
    \/ call = NoCall /\ \E val \in RawMoves, white_to_move \in BOOLEAN : PromoPiece(val, white_to_move)

SpecMove == InitMove /\ [][NextMove]_vars

-----------------------------------------------------------------------------
(* The stack specification: a StateStack is pushed, peeked and popped *)

\* the position pushed onto a stack of n: the positions differ in their full-move counter
PositionNo(n) == [new_empty EXCEPT !.fullmove_clock = n + 1]

\* StateStack::push(elt)
Push(elt) ==
    /\ Running
    /\ call' = [fn |-> "StateStack::push", args |-> <<elt>>, before |-> stack, ret |-> <<>>]
    /\ LET pushed == push(stack, elt)
       IN  IF is_ok(pushed)
           THEN /\ backing' = value(pushed).backing
                /\ size' = value(pushed).size
                /\ UNCHANGED panicked
           ELSE /\ panicked' = pushed.panic
                /\ UNCHANGED <<backing, size>>
    /\ UNCHANGED <<fen, overflow_checks, depth_from_start, game_move, out, calls, history, gs, iter>>

\* StateStack::peek()
Peek ==
    /\ Running
    /\ call' = [fn |-> "StateStack::peek", args |-> <<>>, before |-> stack, ret |-> peek(stack)]
    /\ UNCHANGED <<game_vars, gs, iter, panicked>>

\* StateStack::pop()
Pop ==
    /\ Running
    /\ LET popped == pop(stack)
       IN  IF is_ok(popped)
           THEN /\ backing' = value(popped)[1].backing
                /\ size' = value(popped)[1].size
                /\ call' = [fn |-> "StateStack::pop", args |-> <<>>, before |-> stack,
                            ret |-> value(popped)[2]]
                /\ UNCHANGED panicked
           ELSE /\ panicked' = popped.panic
                /\ call' = [fn |-> "StateStack::pop", args |-> <<>>, before |-> stack, ret |-> <<>>]
                /\ UNCHANGED <<backing, size>>
    /\ UNCHANGED <<fen, overflow_checks, depth_from_start, game_move, out, calls, history, gs, iter>>

\* the index arithmetic of StateStack is on usize and guarded: one build profile
InitStack == Idle /\ overflow_checks

NextStack ==
    \/ \E elt \in {PositionNo(size)} : Push(elt)
    \/ Peek
    \/ Pop

SpecStack == InitStack /\ [][NextStack]_vars

-----------------------------------------------------------------------------
(* The piece specification: a GameState is edited square by square *)

\* the squares handed to the editing functions: three of the board and 64, the first
\* u8 past it
EditSquares == {0, 9, 63, 64}

\* the pieces handed to them: a pawn, a queen, a king of the other side and the sentinel
EditPieces == {WhitePawn, WhiteQueen, BlackKing, Null}

\* GameState::add_piece(piece, sq) onto a square that is empty or holds piece already:
\* the reverse index is written first (sq >= 64 is out of its bounds), the occupancy
\* word bbs[piece] second (Piece::Null = 12 is out of the bounds of bbs)
AddPiece(piece, sq) ==
    /\ Running
    /\ sq < 64 => gs.occupancy[sq] \in {Null, piece}
    /\ call' = [fn |-> "add_piece", args |-> <<piece, sq>>, before |-> gs, ret |-> <<>>]
    /\ IF sq >= 64
       THEN panicked' = "index out of bounds" /\ UNCHANGED gs
       ELSE IF piece = Null
       THEN /\ panicked' = "index out of bounds"
            /\ gs' = [gs EXCEPT !.occupancy = PieceBitBoards_put(gs.occupancy, sq, piece)]
       ELSE gs' = add_piece(gs, piece, sq) /\ UNCHANGED panicked
    /\ UNCHANGED <<game_vars, iter>>

\* GameState::remove_piece(sq)
RemovePiece(sq) ==
    /\ Running
    /\ IF sq >= 64
       THEN /\ panicked' = "index out of bounds"
            /\ call' = [fn |-> "remove_piece", args |-> <<sq>>, before |-> gs, ret |-> <<>>]
            /\ UNCHANGED gs
       ELSE /\ gs' = remove_piece(gs, sq)
            /\ call' = [fn |-> "remove_piece", args |-> <<sq>>, before |-> gs,
                        ret |-> removed_piece(gs, sq)]
            /\ UNCHANGED panicked
    /\ UNCHANGED <<game_vars, iter>>

\* GameState::promote_piece(sq, new_piece): remove_piece(sq), then add_piece(new_piece, sq)
PromotePiece(sq, new_piece) ==
    /\ Running
    /\ call' = [fn |-> "promote_piece", args |-> <<sq, new_piece>>, before |-> gs, ret |-> <<>>]
    /\ IF sq >= 64
       THEN panicked' = "index out of bounds" /\ UNCHANGED gs
       ELSE IF new_piece = Null
       THEN /\ panicked' = "index out of bounds"
            /\ gs' = remove_piece(gs, sq)
       ELSE gs' = promote_piece(gs, sq, new_piece) /\ UNCHANGED panicked
    /\ UNCHANGED <<game_vars, iter>>

\* the editing functions do no arithmetic: one build profile
InitPieces == Idle /\ overflow_checks

NextPieces ==
    \/ \E piece \in EditPieces, sq \in EditSquares : AddPiece(piece, sq)
    \/ \E sq \in EditSquares : RemovePiece(sq)
    \/ \E sq \in EditSquares, new_piece \in EditPieces : PromotePiece(sq, new_piece)

SpecPieces == InitPieces /\ [][NextPieces]_vars

-----------------------------------------------------------------------------
(* Vocabulary of the properties *)

\* Game::make has just returned: the top of the stack is make(Before, Move)
JustMade == Running /\ is_some(game_move) /\ size >= 2
Before == unwrap(backing[size - 2])
After == unwrap(backing[size - 1])
Move == unwrap(game_move)
From == Move \div 1024
To == (Move \div 16) % 64
Code == Move % 16
IsCastleCode == Code \in {2, 3}
CaptureBit == Code \in {4, 5, 6, 7, 12, 13, 14, 15}
PromoBit == Code >= 8

IsWhite(piece) == piece \in 0 .. 5
IsBlack(piece) == piece \in 6 .. 11
OfSide(piece, white) == IF white THEN IsWhite(piece) ELSE IsBlack(piece)

\* the occupant of a square by the reverse index, 12 when there is none
At(s, sq) == s.occupancy[sq]

RECURSIVE bits_from(_, _)
bits_from(s, k) == IF k > 11 THEN 0 ELSE Cardinality(s.bbs[k]) + bits_from(s, k + 1)
\* the number of set bits over the 12 occupancy words
TotalBits(s) == bits_from(s, 0)

\* the reverse index and the occupancy words describe the same board
Consistent(s) == \A sq \in 0 .. 63 : \A k \in 0 .. 11 : (sq \in s.bbs[k]) <=> (s.occupancy[sq] = k)

-----------------------------------------------------------------------------
(* C1: make/unmake on a Game *)

-----------------------------------------------------------------------------
(* C4, C5: the clocks *)

\* C4: from a position with half-move clock h < 255, a make that returns leaves the
\* half-move clock at 0 when the move is not a castling move and either has its
\* capture bit set or moves a pawn, and at h + 1 otherwise.
C4_HalfmoveClock ==
    (JustMade /\ Before.halfmove_clock < 255) =>
        After.halfmove_clock =
            IF ~IsCastleCode /\ (CaptureBit \/ At(Before, From) \in {WhitePawn, BlackPawn})
            THEN 0 ELSE Before.halfmove_clock + 1

\* from a clock of 254 a move that resets it, then a castling move that counts on
C4_Witness ==
    /\ JustMade /\ size = 3
    /\ unwrap(backing[0]).halfmove_clock = 254 /\ Before.halfmove_clock = 0
    /\ IsCastleCode /\ After.halfmove_clock = 1

-----------------------------------------------------------------------------
(* C6, C7, C8: castling and castling rights *)

KingHome(white) == IF white THEN 4 ELSE 60
KingLanding(code, white) ==
    IF code = 2 THEN (IF white THEN 6 ELSE 62) ELSE (IF white THEN 2 ELSE 58)
RookHome(code, white) ==
    IF code = 2 THEN (IF white THEN 7 ELSE 63) ELSE (IF white THEN 0 ELSE 56)
RookLanding(code, white) ==
    IF code = 2 THEN (IF white THEN 5 ELSE 61) ELSE (IF white THEN 3 ELSE 59)
KingOf(white) == IF white THEN WhiteKing ELSE BlackKing
RookOf(white) == IF white THEN WhiteRook ELSE BlackRook

\* a castling move was made by the side whose king and rook stood at home, the two
\* landing squares empty
CastledFromHome ==
    /\ JustMade /\ IsCastleCode
    /\ At(Before, KingHome(Before.white_to_move)) = KingOf(Before.white_to_move)
    /\ At(Before, RookHome(Code, Before.white_to_move)) = RookOf(Before.white_to_move)
    /\ At(Before, KingLanding(Code, Before.white_to_move)) = Null
    /\ At(Before, RookLanding(Code, Before.white_to_move)) = Null

\* C6: after such a castling move both flags of the side that castled are false, the
\* opponent's are unchanged, the king and the rook stand on their landing squares,
\* their home squares are empty and every other square is as before.
C6_Castle ==
    CastledFromHome =>
        LET w == Before.white_to_move
            own == IF w THEN 0 ELSE 2
            other == IF w THEN 2 ELSE 0
            touched == {KingHome(w), KingLanding(Code, w), RookHome(Code, w), RookLanding(Code, w)}
        IN  /\ ~After.castlerights[own] /\ ~After.castlerights[own + 1]
            /\ After.castlerights[other] = Before.castlerights[other]
            /\ After.castlerights[other + 1] = Before.castlerights[other + 1]
            /\ At(After, KingLanding(Code, w)) = KingOf(w)
            /\ KingLanding(Code, w) \in After.bbs[KingOf(w)]
            /\ At(After, RookLanding(Code, w)) = RookOf(w)
            /\ RookLanding(Code, w) \in After.bbs[RookOf(w)]
            /\ At(After, KingHome(w)) = Null /\ KingHome(w) \notin After.bbs[KingOf(w)]
            /\ At(After, RookHome(Code, w)) = Null /\ RookHome(Code, w) \notin After.bbs[RookOf(w)]
            /\ \A sq \in (0 .. 63) \ touched :
                  /\ At(After, sq) = At(Before, sq)
                  /\ \A k \in 0 .. 11 : (sq \in After.bbs[k]) <=> (sq \in Before.bbs[k])

\* black castles queenside holding neither of its rights, white holding only K
C6_Witness ==
    /\ CastledFromHome /\ ~Before.white_to_move /\ Code = 3
    /\ Before.castlerights = [i \in 0 .. 3 |-> i = 0]
    /\ At(After, 58) = BlackKing /\ At(After, 59) = BlackRook

\* C7: along the positions of a Game, a castling-right flag that is false in one
\* position is false in every later one.
C7_RightsOneWay ==
    (Running /\ history # <<>>) =>
        \A i \in 0 .. (size - 1) : \A j \in i .. (size - 1) : \A f \in 0 .. 3 :
            ~unwrap(backing[i]).castlerights[f] => ~unwrap(backing[j]).castlerights[f]

\* three makes on from a position without Q: a castling move and a rook move away
\* from a1 among them, and Q still false
C7_Witness ==
    /\ JustMade /\ size = 4
    /\ ~unwrap(backing[0]).castlerights[1] /\ unwrap(backing[0]).castlerights[0]
    /\ ~After.castlerights[0] /\ ~After.castlerights[1]
    /\ \E n \in 1 .. 3 : At(unwrap(backing[n - 1]), 0) = WhiteRook /\ At(unwrap(backing[n]), 0) = Null

\* the flag the codec writes for the castling side of a rook home square:
\* a1 -> Q (index 1), h1 -> K (0), a8 -> q (3), h8 -> k (2)
HomeFlag(sq) == CASE sq = 0 -> 1 [] sq = 7 -> 0 [] sq = 56 -> 3 [] sq = 63 -> 2

\* the side to move has moved one of its rooks (not castling) off one of its rook home
\* squares while holding at least one of its two rights
RookLeftHome ==
    /\ JustMade /\ ~IsCastleCode
    /\ At(Before, From) = RookOf(Before.white_to_move)
    /\ From \in (IF Before.white_to_move THEN {0, 7} ELSE {56, 63})
    /\ \/ Before.castlerights[IF Before.white_to_move THEN 0 ELSE 2]
       \/ Before.castlerights[IF Before.white_to_move THEN 1 ELSE 3]

\* C8: such a rook move clears exactly the flag of the home square it left
\* (a1: Q, h1: K, a8: q, h8: k) and leaves the other three flags as they were.
C8_RookMoveClearsHomeFlag ==
    RookLeftHome =>
        After.castlerights = [Before.castlerights EXCEPT ![HomeFlag(From)] = FALSE]

-----------------------------------------------------------------------------
(* C9, C10: captures and promotions *)

\* the piece a promotion code names, in the colour of the side that moves
PromoKind(code, white) ==
    CASE code % 4 = 0 -> IF white THEN WhiteKnight ELSE BlackKnight
      [] code % 4 = 1 -> IF white THEN WhiteBishop ELSE BlackBishop
      [] code % 4 = 2 -> IF white THEN WhiteRook ELSE BlackRook
      [] code % 4 = 3 -> IF white THEN WhiteQueen ELSE BlackQueen

\* a Capture or promotion-capture by a piece of the side to move onto a piece of the other side
OrdinaryCapture ==
    /\ JustMade /\ Code \in {4, 12, 13, 14, 15}
    /\ At(Before, From) # Null /\ OfSide(At(Before, From), Before.white_to_move)
    /\ At(Before, To) # Null /\ OfSide(At(Before, To), ~Before.white_to_move)

\* a Quiet move of a piece onto an empty square
QuietOntoEmpty ==
    JustMade /\ Code = 0 /\ At(Before, From) # Null /\ At(Before, To) = Null

CaptureEffect ==
    /\ At(After, To) = (IF PromoBit THEN PromoKind(Code, Before.white_to_move) ELSE At(Before, From))
    /\ To \notin After.bbs[At(Before, To)]
    /\ TotalBits(After) = TotalBits(Before) - 1

Promoted == JustMade /\ PromoBit /\ At(Before, From) # Null

\* C10 as stated: after any promotion move the destination holds the piece the kind
\* names in the mover's colour, the source square is empty and the destination does
\* not hold the piece kind that stood on the source square.
C10_PromotionAnySource ==
    Promoted =>
        /\ At(After, To) = PromoKind(Code, Before.white_to_move)
        /\ To \in After.bbs[PromoKind(Code, Before.white_to_move)]
        /\ At(After, From) = Null
        /\ At(After, To) # At(Before, From)

\* C10 (amended): for a promotion move whose source square is not its destination,
\* the destination holds the piece the kind names in the colour of the side that
\* moved and the source square is empty; and when a pawn stood on the source square
\* the destination does not hold a pawn.
C10_Promotion ==
    (Promoted /\ From # To) =>
        /\ At(After, To) = PromoKind(Code, Before.white_to_move)
        /\ To \in After.bbs[PromoKind(Code, Before.white_to_move)]
        /\ At(After, From) = Null
        /\ At(Before, From) \in {WhitePawn, BlackPawn} => At(After, To) \notin {WhitePawn, BlackPawn}

\* white's pawn on b7 promotes to a rook on b8
C10_Witness ==
    /\ Promoted /\ From = 49 /\ To = 57 /\ Code = 10
    /\ At(Before, From) = WhitePawn /\ At(After, To) = WhiteRook /\ At(After, From) = Null

-----------------------------------------------------------------------------
(* C2, C3: the codec round trips *)

\* C2: for the position P a Game shows (built by parse_fen, or reached from such a
\* position by makes), parse_fen(to_fen(P)) succeeds and equals P field for field.
C2_ParseOfToFen ==
    (Running /\ is_some(out)) =>
        LET again == parse_fen(unwrap(out), overflow_checks)
        IN  is_ok(again) /\ value(again) = current_state

PieceLetters == {"P", "B", "N", "R", "Q", "K", "p", "b", "n", "r", "q", "k"}
RunDigits == {"1", "2", "3", "4", "5", "6", "7", "8"}

\* the number of squares a rank group describes
RECURSIVE squares_of(_)
squares_of(group) ==
    IF Len(group) = 0 THEN 0
    ELSE (IF group[1] \in RunDigits THEN digit_value(group[1]) ELSE 1) + squares_of(Tail(group))

CanonicalGroup(group) ==
    /\ \A i \in 1 .. Len(group) : group[i] \in PieceLetters \cup RunDigits
    /\ \A i \in 1 .. (Len(group) - 1) : ~(group[i] \in RunDigits /\ group[i + 1] \in RunDigits)
    /\ squares_of(group) = 8

CanonicalNumber(s) ==
    /\ Len(s) >= 1 /\ Len(s) <= 9
    /\ \A i \in 1 .. Len(s) : is_digit(s[i])
    /\ Len(s) > 1 => s[1] # "0"

\* the canonical form of a record: 8 rank groups of 8 squares with maximal runs, side
\* w or b, a non-empty castling field in the order K Q k q, en-passant field "-", a
\* decimal full-move counter and a decimal half-move clock of at most 255, neither
\* with leading zeros
Canonical(text) ==
    LET fields == split(text, " ")
        groups == split(fields[1], "/")
    IN  /\ Len(fields) = 6
        /\ Len(groups) = 8
        /\ \A i \in 1 .. 8 : CanonicalGroup(groups[i])
        /\ fields[2] \in {<<"w">>, <<"b">>}
        /\ fields[3] # <<>> /\ fields[3] \in CastleFields
        /\ fields[4] = <<"-">>
        /\ CanonicalNumber(fields[5])
        /\ CanonicalNumber(fields[6]) /\ Len(fields[6]) <= 3 /\ digits_value(fields[6]) <= 255

\* C3: for a record s in canonical form, to_fen(parse_fen(s)) is s, character for
\* character.
C3_ToFenOfParse ==
    (Running /\ calls = 0 /\ is_some(out) /\ Canonical(fen)) => unwrap(out) = fen

\* the sparse board with rights K and q and clocks 12 and 255 is written back as read
C3_Witness ==
    /\ Running /\ calls = 0 /\ is_some(out) /\ Canonical(fen)
    /\ fen = record(BoardSparse, <<"w">>, <<"K", "q">>, <<"-">>, <<"1", "2">>, <<"2", "5", "5">>)
    /\ unwrap(out) = fen

-----------------------------------------------------------------------------
(* C11 - C14: captures en passant, the en-passant target, when make aborts *)

\* the square one rank behind sq, seen from the side that moves
Behind(sq, white) == IF white THEN sq - 8 ELSE sq + 8

PawnOf(white) == IF white THEN WhitePawn ELSE BlackPawn

\* a pawn of the side to move captures en passant onto the en-passant target, an
\* enemy pawn standing on the square directly behind that target
EpCaptureOntoTarget ==
    /\ JustMade /\ Code = 5
    /\ Before.ep_square = Some(To)
    /\ At(Before, From) = PawnOf(Before.white_to_move)
    /\ Behind(To, Before.white_to_move) \in SquareIdx
    /\ At(Before, Behind(To, Before.white_to_move)) = PawnOf(~Before.white_to_move)

\* C11: an en-passant capture removes the enemy pawn on the square directly behind
\* the destination (destination - 8 for white, destination + 8 for black), puts the
\* capturing pawn on the destination and lowers the piece count by one.
C11_EpCaptureBehindDestination ==
    EpCaptureOntoTarget =>
        /\ At(After, Behind(To, Before.white_to_move)) = Null
        /\ Behind(To, Before.white_to_move) \notin After.bbs[PawnOf(~Before.white_to_move)]
        /\ At(After, To) = PawnOf(Before.white_to_move)
        /\ TotalBits(After) = TotalBits(Before) - 1

\* every square outside S holds after the move what it held before it
SameExcept(S) ==
    \A sq \in SquareIdx \ S :
        /\ At(After, sq) = At(Before, sq)
        /\ \A k \in Pieces : (sq \in After.bbs[k]) <=> (sq \in Before.bbs[k])

\* the one occupant the move took off the board is that of square c: c is left empty
\* (unless the mover landed on it), its occupant is gone from that piece's occupancy
\* word, and no square but c, the source and the destination changed
RemovedAt(c) ==
    /\ c \in SquareIdx
    /\ SameExcept({c, From, To})
    /\ c # To => At(After, c) = Null
    /\ (At(Before, c) # Null /\ ~(c = To /\ At(Before, c) = At(After, To)))
           => c \notin After.bbs[At(Before, c)]

\* the captured square as C12 states it, in unbounded arithmetic
CapturedSquare ==
    IF Code = 5
    THEN (IF Before.white_to_move THEN unwrap(Before.ep_square) + 8
          ELSE unwrap(Before.ep_square) - 8)
    ELSE To

C13_EpTargetAnyDestination ==
    (JustMade /\ ~IsCastleCode) =>
        After.ep_square =
            (IF Code = 1 THEN Some(IF Before.white_to_move THEN To - 8 ELSE To + 8) ELSE None)

\* C13 (amended): the same, a white double push counted only when its destination
\* is at least 8; a white double push to a destination below 8 returns only in a
\* build without overflow checks, and then with the target destination + 248.
C13_EpTarget ==
    (JustMade /\ ~IsCastleCode) =>
        After.ep_square =
            (IF Code # 1 THEN None
             ELSE IF ~Before.white_to_move THEN Some(To + 8)
             ELSE IF To >= 8 THEN Some(To - 8)
             ELSE Some(To + 248))

\* white's double push 12 -> 28 from a position whose target was 43 sets the target 20
C13_Witness ==
    /\ JustMade /\ Code = 1 /\ Before.white_to_move /\ From = 12 /\ To = 28
    /\ Before.ep_square = Some(43)
    /\ After.ep_square = Some(20)

\* C14: Game::make's call of GameState::make aborts only when the move is not a
\* castling move and its source square is empty (a run that ended in a call of
\* Game::make keeps that call's argument in game_move and the position it was made
\* from on top of the stack).
C14_MakeAbortsOnlyOnEmptySource ==
    (~Running /\ is_some(game_move) /\ size >= 1 /\ size < MAX_MOVESTACK_DEPTH) =>
        /\ ~IsCastleCode
        /\ At(unwrap(backing[size - 1]), From) = Null

-----------------------------------------------------------------------------
(* C15, C16: the move encoding *)

\* C15: for from, to in 0..63 and each of the 15 kinds, GameMove::new(from, to,
\* kind).data is from*1024 + to*16 + the kind's code, and fromsquare, tosquare and
\* move_type of that move give back from, to and kind; of a raw 16-bit value,
\* codes 6 and 7 decode to NullMove and every other code to the kind whose number
\* is the code.
C15_MoveEncoding ==
    /\ (call.fn = "GameMove::new" /\ call.args[1] \in 0 .. 63 /\ call.args[2] \in 0 .. 63) =>
           /\ call.ret[1] = call.args[1] * 1024 + call.args[2] * 16 + call.args[3]
           /\ call.ret[2] = call.args[1]
           /\ call.ret[3] = call.args[2]
           /\ call.ret[4] = call.args[3]
    /\ call.fn = "GameMove::from_val" =>
           call.ret[1] = (IF call.args[1] % 16 \in {6, 7} THEN 6 ELSE call.args[1] % 16)

\* GameMove::new(63, 9, QueenPromoCapture) is 64671 and unpacks to 63, 9 and 15
C15_Witness ==
    /\ call.fn = "GameMove::new" /\ call.args = <<63, 9, 15>>
    /\ call.ret = <<64671, 63, 9, 15>>

\* the piece bits 1:0 of a move select, as a white piece: knight, bishop, rook, queen
SelectedPiece(sel) == <<WhiteKnight, WhiteBishop, WhiteRook, WhiteQueen>>[sel + 1]

\* C16: promo_piece(move, white_to_move) is none exactly when bit 3 of the move is
\* clear; otherwise it is the piece bits 1:0 select (00 knight, 01 bishop, 10 rook,
\* 11 queen), white when white_to_move and black otherwise, never a pawn, a king or
\* the Null sentinel.
C16_PromoPiece ==
    call.fn = "GameMove::promo_piece" =>
        LET val == call.args[1]
            bit3 == (val \div 8) % 2
            sel == val % 4
        IN  /\ (call.ret = None) <=> (bit3 = 0)
            /\ bit3 = 1 =>
                   /\ call.ret = Some(SelectedPiece(sel) + (IF call.args[2] THEN 0 ELSE 6))
                   /\ unwrap(call.ret) \notin {WhitePawn, BlackPawn, WhiteKing, BlackKing, Null}

\* a black move with code 8 (bits 1:0 = 00) promotes to a black knight
C16_Witness ==
    /\ call.fn = "GameMove::promo_piece" /\ call.args = <<GameMove_new(9, 1, KnightPromo), FALSE>>
    /\ call.ret = Some(BlackKnight)

-----------------------------------------------------------------------------
(* C17 - C19: the StateStack *)

\* C17: pop on a stack that is not empty removes and returns the top element, the
\* position peek returned just before the call (so that after pushing p1..pn the
\* pops return pn, ..., p1).
C17_PopReturnsTop ==
    (call.fn = "StateStack::pop" /\ call.before.size > 0) =>
        /\ Running
        /\ is_some(call.ret)
        /\ call.ret = call.before.backing[call.before.size - 1]
        /\ size = call.before.size - 1

\* C18: peek and pop on an empty stack return none without aborting and leave the
\* stack empty and as it was; a push(p) onto the empty stack makes peek return p.
C18_EmptyPeekPop ==
    /\ (call.fn \in {"StateStack::peek", "StateStack::pop"} /\ call.before.size = 0) =>
           /\ Running
           /\ call.ret = None
           /\ size = 0
           /\ backing = call.before.backing
    /\ (call.fn = "StateStack::push" /\ call.before.size = 0) =>
           /\ Running
           /\ peek(stack) = Some(call.args[1])

\* a stack emptied by pop is popped again
C18_Witness ==
    /\ call.fn = "StateStack::pop" /\ call.before.size = 0
    /\ is_some(call.before.backing[0])
    /\ Running /\ call.ret = None /\ size = 0

\* C19: a push onto a stack that holds MAX_MOVESTACK_DEPTH = 100 positions aborts
\* with an out-of-bounds failure and leaves every stored position and the size as
\* they were; a push onto a smaller stack succeeds, storing the position above the
\* others.
C19_PushAtCapacity ==
    call.fn = "StateStack::push" =>
        IF call.before.size < 100
        THEN /\ Running
             /\ size = call.before.size + 1
             /\ backing = [call.before.backing EXCEPT ![call.before.size] = Some(call.args[1])]
        ELSE /\ panicked = "index out of bounds"
             /\ size = call.before.size
             /\ backing = call.before.backing

\* the push onto a stack of 100
C19_Witness ==
    /\ call.fn = "StateStack::push" /\ call.before.size = 100
    /\ \A i \in 0 .. 99 : backing[i] = Some(PositionNo(i))
    /\ call.args[1] = PositionNo(100)
    /\ panicked = "index out of bounds"

-----------------------------------------------------------------------------
(* C20: the reverse index and the occupancy words *)

\* C20: from new_empty(), after any add_piece (onto a square that is empty or holds
\* that piece kind), remove_piece and promote_piece calls: occupying_piece(s) is k
\* exactly when bit s is set in bbs[k], no square is set in two occupancy words, and
\* occupying_piece is none, never the Null sentinel, for a square set in no word.
C20_IndexAgreesWithWords ==
    Running =>
        \A s \in SquareIdx :
            /\ \A k \in Pieces : (occupying_piece(gs, s) = Some(k)) <=> (s \in gs.bbs[k])
            /\ \A k \in Pieces : \A j \in Pieces : (s \in gs.bbs[k] /\ s \in gs.bbs[j]) => k = j
            /\ occupying_piece(gs, s) # Some(Null)
            /\ (\A k \in Pieces : s \notin gs.bbs[k]) => occupying_piece(gs, s) = None

\* the pawn on 9 promoted to a queen while a king stands on 63
C20_Witness ==
    /\ Running /\ call.fn = "promote_piece" /\ call.args = <<9, WhiteQueen>>
    /\ call.before.occupancy[9] = WhitePawn
    /\ occupying_piece(gs, 9) = Some(WhiteQueen)
    /\ gs.bbs[WhiteQueen] = {9} /\ gs.bbs[WhitePawn] = {} /\ gs.bbs[BlackKing] = {63}

-----------------------------------------------------------------------------
(* C21, C22: the en-passant field of a record *)

FileLetters == <<"a", "b", "c", "d", "e", "f", "g", "h">>
RankDigits == <<"1", "2", "3", "4", "5", "6", "7", "8">>

\* the fields of the record last written by to_fen
OutFields == split(unwrap(out), " ")

\* C21: to_fen writes a present en-passant target s as the file letter ('a' + s mod
\* 8) followed by the rank digit ('1' + s div 8), and an absent target as "-".
C21_EpFieldLetterThenDigit ==
    (Running /\ is_some(out)) =>
        /\ Len(OutFields) = 6
        /\ OutFields[4] =
               (IF ~is_some(current_state.ep_square) THEN <<"-">>
                ELSE LET s == unwrap(current_state.ep_square)
                     IN  <<FileLetters[(s % 8) + 1], RankDigits[((s \div 8) % 8) + 1]>>)

\* the fields of the record handed to parse_fen
FenFields == split(fen, " ")

\* the place of c in a sequence of distinct characters, counted from 0
IndexIn(seq, c) == (CHOOSE i \in 1 .. Len(seq) : seq[i] = c) - 1

\* a file letter a-h followed by a rank digit 1-8
LetterThenDigit(field) ==
    /\ Len(field) = 2
    /\ \E i \in 1 .. 8 : FileLetters[i] = field[1]
    /\ \E i \in 1 .. 8 : RankDigits[i] = field[2]

\* the record with its en-passant field replaced
WithEpField(text, field) ==
    LET fields == split(text, " ") IN join([fields EXCEPT ![4] = field], " ")

\* C22: parse_fen accepts an en-passant field made of a file letter and a rank
\* digit and maps it to square (digit - 1) * 8 + (letter - 'a'); it maps "-" to
\* none (the rest of the record being one parse_fen accepts).
C22_EpFieldParsed ==
    (calls = 0 /\ Len(FenFields) = 6
     /\ is_ok(parse_fen(WithEpField(fen, <<"-">>), overflow_checks))) =>
        /\ LetterThenDigit(FenFields[4]) =>
               /\ Running /\ size = 1
               /\ unwrap(backing[0]).ep_square =
                      Some(IndexIn(RankDigits, FenFields[4][2]) * 8
                           + IndexIn(FileLetters, FenFields[4][1]))
        /\ FenFields[4] = <<"-">> =>
               /\ Running /\ size = 1
               /\ unwrap(backing[0]).ep_square = None

-----------------------------------------------------------------------------
(* C23 - C25: the castling field, malformed records, the placement field *)

CastleLetters == <<"K", "Q", "k", "q">>

\* C23: whatever the four castling flags, to_fen writes a record of exactly 6
\* space-separated fields whose castling field holds exactly the letters (K, Q, k,
\* q) of the flags that are true, and parse_fen of that record yields the same flags.
C23_CastlingField ==
    (Running /\ is_some(out)) =>
        /\ Len(OutFields) = 6
        /\ \A i \in 1 .. Len(OutFields[3]) : \E k \in 1 .. 4 : CastleLetters[k] = OutFields[3][i]
        /\ \A k \in 0 .. 3 :
               str_contains(OutFields[3], CastleLetters[k + 1]) <=> current_state.castlerights[k]
        /\ LET again == parse_fen(unwrap(out), overflow_checks)
           IN  is_ok(again) /\ value(again).castlerights = current_state.castlerights

\* a position that holds no castling right: the field is empty and read back as no right
C23_Witness ==
    /\ Running /\ is_some(out)
    /\ \A k \in 0 .. 3 : ~current_state.castlerights[k]
    /\ Len(OutFields) = 6 /\ OutFields[3] = <<>>
    /\ is_ok(parse_fen(unwrap(out), overflow_checks))

\* a clock field that is no non-negative integer: empty, or with a character that
\* is neither a decimal digit nor a leading "+"
NotAnInteger(field) ==
    \/ Len(field) = 0
    \/ field = <<"+">>
    \/ \E i \in 1 .. Len(field) : ~is_digit(field[i]) /\ ~(i = 1 /\ field[i] = "+")

\* a malformed record, as C24 lists them
Malformed(text) ==
    LET fields == split(text, " ")
    IN  IF Len(fields) # 6 THEN TRUE
        ELSE \/ NotAnInteger(fields[5])
             \/ NotAnInteger(fields[6])
             \/ fields[2] \notin {<<"w">>, <<"b">>}
             \/ \E i \in 1 .. Len(fields[1]) :
                    fields[1][i] \notin PieceLetters \cup {"/"} /\ ~is_digit(fields[1][i])
             \/ \E i \in 1 .. Len(fields[3]) : fields[3][i] \notin {"K", "Q", "k", "q"}
             \/ \E i \in 1 .. Len(fields[4]) :
                    /\ fields[4][i] # "-"
                    /\ \A k \in 1 .. 8 : FileLetters[k] # fields[4][i] /\ RankDigits[k] # fields[4][i]

\* C24: parse_fen aborts for every malformed record.
C24_MalformedRecordsAbort ==
    (calls = 0 /\ Malformed(fen)) => ~Running

\* the piece a letter of the placement field stands for
PieceOfLetter(c) ==
    CASE c = "P" -> WhitePawn [] c = "B" -> WhiteBishop [] c = "N" -> WhiteKnight
      [] c = "R" -> WhiteRook [] c = "Q" -> WhiteQueen [] c = "K" -> WhiteKing
      [] c = "p" -> BlackPawn [] c = "b" -> BlackBishop [] c = "n" -> BlackKnight
      [] c = "r" -> BlackRook [] c = "q" -> BlackQueen [] c = "k" -> BlackKing

\* the pieces rank group number i (0 first in the text) describes at files 0..7, as
\* pairs <<square, piece>>: the characters j .. of the group, the next at file f
RECURSIVE Described(_, _, _, _)
Described(group, i, j, f) ==
    IF j > Len(group) \/ f > 7 THEN {}
    ELSE IF is_digit(group[j]) THEN Described(group, i, j + 1, f + digit_value(group[j]))
    ELSE {<<(7 - i) * 8 + f, PieceOfLetter(group[j])>>} \cup Described(group, i, j + 1, f + 1)

DescribedBy(placement) ==
    LET groups == split(placement, "/")
    IN  UNION {Described(groups[i + 1], i, 1, 0) : i \in 0 .. (Len(groups) - 1)}

\* White R N B Q K B N R on 0..7, white pawns on 8..15, black pawns on 48..55, black
\* r n b q k b n r on 56..63, nothing between
StartBoard ==
    [sq \in SquareIdx |->
        IF sq < 8 THEN <<WhiteRook, WhiteKnight, WhiteBishop, WhiteQueen,
                         WhiteKing, WhiteBishop, WhiteKnight, WhiteRook>>[sq + 1]
        ELSE IF sq < 16 THEN WhitePawn
        ELSE IF sq < 48 THEN Null
        ELSE IF sq < 56 THEN BlackPawn
        ELSE <<BlackRook, BlackKnight, BlackBishop, BlackQueen,
               BlackKing, BlackBishop, BlackKnight, BlackRook>>[sq - 55]]

\* C25: the position parse_fen returns holds the piece described at file f (0..7)
\* of the i-th rank group on square (7 - i) * 8 + f, in the reverse index and in that
\* piece's occupancy word, and every other square is empty; the standard start
\* record gives the standard board.
C25_Placement ==
    (Running /\ calls = 0 /\ size = 1) =>
        LET P == unwrap(backing[0])
            described == DescribedBy(FenFields[1])
        IN  /\ \A d \in described : At(P, d[1]) = d[2] /\ d[1] \in P.bbs[d[2]]
            /\ \A sq \in SquareIdx :
                   (\A d \in described : d[1] # sq) =>
                       At(P, sq) = Null /\ \A k \in Pieces : sq \notin P.bbs[k]
            /\ FenFields[1] = BoardStart => P.occupancy = StartBoard

-----------------------------------------------------------------------------
(* C26: remove_piece *)

\* C26: remove_piece(sq) returns the piece kind occupying_piece(sq) reported just
\* before the call, after which occupying_piece(sq) is none and bit sq is clear in
\* that kind's occupancy word; on an empty square it returns none and changes nothing.
C26_RemovePiece ==
    (Running /\ call.fn = "remove_piece") =>
        LET sq == call.args[1]
            was == call.before.occupancy[sq]
        IN  /\ call.ret = (IF was = Null THEN None ELSE Some(was))
            /\ occupying_piece(gs, sq) = None
            /\ was # Null => sq \notin gs.bbs[was]
            /\ was = Null => gs = call.before

\* the queen on 9 is removed
C26_Witness ==
    /\ Running /\ call.fn = "remove_piece" /\ call.args = <<9>>
    /\ call.before.occupancy[9] = WhiteQueen /\ 9 \in call.before.bbs[WhiteQueen]
    /\ call.ret = Some(WhiteQueen)
    /\ gs.occupancy[9] = Null /\ 9 \notin gs.bbs[WhiteQueen]

-----------------------------------------------------------------------------
(* C27: unmake on a full history stack *)

\* C27: after exactly 99 makes on a fresh Game (100 positions stored), unmake()
\* completes without aborting and current_state() is then the position that was
\* current after the 98th make.  (A 100th call that is an unmake and leaves 99 or
\* more positions stored follows 99 makes.)
C27_UnmakeAtCapacity ==
    (calls = MAX_MOVESTACK_DEPTH /\ game_move = None /\ size >= MAX_MOVESTACK_DEPTH - 1) =>
        /\ Running
        /\ size = MAX_MOVESTACK_DEPTH - 1
        /\ Len(history) = MAX_MOVESTACK_DEPTH - 1
        /\ peek(stack) = Some(history[Len(history)])

-----------------------------------------------------------------------------
(* C28 - C30: what make keeps *)

\* C28: in every position make returns, castling moves included, the en-passant
\* target is present only if the move just made was a double pawn push.
C28_EpTargetOnlyAfterDoublePush ==
    JustMade => (is_some(After.ep_square) => Code = 1)

\* a move that is no castling move and takes no rook off one of the squares 0, 7, 56, 63
NoRookLeavesHome ==
    /\ JustMade /\ ~IsCastleCode
    /\ ~(At(Before, From) \in {WhiteRook, BlackRook} /\ From \in {0, 7, 56, 63})

\* C29: a non-castling move whose moving piece is not a rook, or is a rook that
\* does not leave square 0, 7, 56 or 63, leaves all four castling flags as they
\* were; king moves and captures of a rook on its home square are such moves.
C29_RightsUntouched ==
    NoRookLeavesHome => After.castlerights = Before.castlerights

\* white's pawn on 49 takes the rook on its home square 56, all four rights held
C29_Witness ==
    /\ NoRookLeavesHome /\ From = 49 /\ To = 56 /\ Code = 15
    /\ At(Before, 56) = BlackRook /\ At(After, 56) = WhiteQueen
    /\ \A i \in 0 .. 3 : Before.castlerights[i] /\ After.castlerights[i]

\* C30: from a position built by parse_fen, every position reached by makes that
\* return keeps the reverse index and the occupancy words consistent.
C30_MakeKeepsConsistency ==
    (Running /\ size >= 1) => Consistent(unwrap(backing[size - 1]))

-----------------------------------------------------------------------------
(* The constructor specification: a GameState is built by GameState::new and read *)

\* the squares given an occupant and the occupants they are given
NewBoardSquares == {0, 9, 63}

\* the occupancy words that set square s in word placed[s], in no word for Null
words_of(placed) == [k \in Pieces |-> {s \in DOMAIN placed : placed[s] = k}]

\* occupancy words in which each square is set in at most one word
NewBoards == {words_of(placed) : placed \in [NewBoardSquares -> EditPieces]}

\* GameState::new(bbs, white_to_move, ep_square, 0, 1, [true; 4])
NewState(bbs, white_to_move, ep_square) ==
    /\ call = NoCall
    /\ gs' = GameState_new(bbs, white_to_move, ep_square, 0, 1, [i \in 0 .. 3 |-> TRUE])
    /\ call' = [fn |-> "GameState::new", args |-> <<bbs, white_to_move, ep_square>>,
                before |-> <<>>, ret |-> <<>>]
    /\ UNCHANGED <<game_vars, iter, panicked>>

\* GameState::occupying_piece(sq)
OccupyingPiece(sq) ==
    /\ Running
    /\ call # NoCall
    /\ IF sq >= 64
       THEN /\ panicked' = "index out of bounds"
            /\ call' = [fn |-> "occupying_piece", args |-> <<sq>>, before |-> gs, ret |-> <<>>]
       ELSE /\ call' = [fn |-> "occupying_piece", args |-> <<sq>>, before |-> gs,
                        ret |-> occupying_piece(gs, sq)]
            /\ UNCHANGED panicked
    /\ UNCHANGED <<game_vars, gs, iter>>

\* the constructor does no arithmetic: one build profile
InitNew == Idle /\ overflow_checks

NextNew ==
    \/ \E bbs \in NewBoards, white_to_move \in BOOLEAN, ep_square \in {None, Some(20)} :
           NewState(bbs, white_to_move, ep_square)
    \/ \E sq \in EditSquares : OccupyingPiece(sq)
    \/ call # NoCall /\ \E sq \in EditSquares : RemovePiece(sq)

SpecNew == InitNew /\ [][NextNew]_vars

-----------------------------------------------------------------------------
(* C31: the position GameState::new builds *)

\* C31: a position built by GameState::new(bbs, ...) from occupancy words in which
\* each square is set in at most one word is consistent: for every square s set in
\* bbs[k], occupying_piece(s) returns k and remove_piece(s) clears that bit (and
\* returns k).
C31_NewIsConsistent ==
    /\ call.fn = "GameState::new" =>
           \A k \in Pieces : \A s \in gs.bbs[k] : occupying_piece(gs, s) = Some(k)
    /\ (Running /\ call.fn = "occupying_piece") =>
           \A k \in Pieces : call.args[1] \in call.before.bbs[k] => call.ret = Some(k)
    /\ (Running /\ call.fn = "remove_piece") =>
           \A k \in Pieces : call.args[1] \in call.before.bbs[k] =>
               call.args[1] \notin gs.bbs[k] /\ call.ret = Some(k)

-----------------------------------------------------------------------------
(* C32: the top of the half-move clock's range *)

\* the move last handed to Game::make is a castling move, or a quiet move of a piece
\* that is no pawn, made from position s
CountsOn(s) ==
    \/ IsCastleCode
    \/ Code = Quiet /\ At(s, From) \notin {WhitePawn, BlackPawn, Null}

\* C32: the half-move clock increment never overflows its 8 bits: from every
\* position parse_fen produces, half-move clock 255 included, a castling move or a
\* quiet non-pawn move returns a position whose half-move clock is the previous
\* value + 1; make neither aborts nor wraps the clock to 0.
C32_HalfmoveNeverOverflows ==
    /\ (JustMade /\ CountsOn(Before)) =>
           After.halfmove_clock = Before.halfmove_clock + 1
    /\ (~Running /\ is_some(game_move) /\ size >= 1) =>
           ~CountsOn(unwrap(backing[size - 1]))

-----------------------------------------------------------------------------
(* C33: the capture and promotion bits of the 15 move kinds *)

PromoKinds ==
    {KnightPromo, BishopPromo, RookPromo, QueenPromo,
     KnightPromoCapture, BishopPromoCapture, RookPromoCapture, QueenPromoCapture}

CaptureKinds ==
    {Capture, EpCapture,
     KnightPromoCapture, BishopPromoCapture, RookPromoCapture, QueenPromoCapture}

\* C33: for every move built by GameMove::new with any of the 15 move kinds,
\* is_promo is true exactly for the eight promotion kinds and is_capture exactly for
\* Capture, EpCapture and the four promotion-capture kinds; a NullMove is neither a
\* capture nor a promotion.
C33_CaptureAndPromoBits ==
    call.fn = "GameMove::new" =>
        LET data == call.ret[1]
            kind == call.args[3]
        IN  /\ is_promo(data) <=> kind \in PromoKinds
            /\ is_capture(data) <=> kind \in CaptureKinds

-----------------------------------------------------------------------------
(* BitBoard (u64) arithmetic: a word is the set of the indices 0..63 of its set bits *)

BitIdx == 0 .. 63

\* a & b, a | b, a ^ b, !a
and64(a, b) == a \cap b
or64(a, b) == a \cup b
xor64(a, b) == (a \ b) \cup (b \ a)
not64(a) == BitIdx \ a

\* a << n and a >> n for n < 64: the bits shifted past either end are lost
shl64(a, n) == {i + n : i \in {j \in a : j + n <= 63}}
shr64(a, n) == {i - n : i \in {j \in a : j >= n}}

\* bits i..63 of a - b - borrow, computed bit by bit; the borrow out of bit 63 is dropped
RECURSIVE sub_from(_, _, _, _)
sub_from(a, b, i, borrow) ==
    IF i > 63 THEN {}
    ELSE LET d == (IF i \in a THEN 1 ELSE 0) - (IF i \in b THEN 1 ELSE 0) - borrow
         IN  (IF d % 2 = 1 THEN {i} ELSE {}) \cup sub_from(a, b, i + 1, IF d < 0 THEN 1 ELSE 0)

\* a.wrapping_sub(b)
wrapping_sub64(a, b) == sub_from(a, b, 0, 0)

\* a.trailing_zeros(): 64 for the zero word
RECURSIVE zeros_from(_, _)
zeros_from(a, i) == IF i > 63 \/ i \in a THEN i ELSE zeros_from(a, i + 1)
trailing_zeros(a) == zeros_from(a, 0)

-----------------------------------------------------------------------------
(* bits/utils.rs *)

bitscan(bb) == trailing_zeros(bb)

\* lsb_mask as it would be with bb - 1 in the place of 0 - bb
lsb_mask_minus_one(bb) == and64(bb, wrapping_sub64(bb, {0}))

lsb_mask(bb) == and64(bb, wrapping_sub64({}, bb))

-----------------------------------------------------------------------------
(* bits/masks.rs *)

RANK_2 == 8 .. 15
RANK_7 == 48 .. 55

FILE_A == {8 * r : r \in 0 .. 7}
FILE_B == {8 * r + 1 : r \in 0 .. 7}
FILE_G == {8 * r + 6 : r \in 0 .. 7}
FILE_H == {8 * r + 7 : r \in 0 .. 7}

\* make_square_masks
SQUARES == [i \in BitIdx |-> shl64({0}, i)]

\* make_knight_mask as it would be without the file masks
make_knight_mask_unmasked(sq) ==
    LET knight_sq == SQUARES[sq]
    IN  UNION {shl64(knight_sq, 17), shl64(knight_sq, 10), shr64(knight_sq, 6),
               shr64(knight_sq, 15), shl64(knight_sq, 15), shl64(knight_sq, 6),
               shr64(knight_sq, 10), shr64(knight_sq, 17)}

make_knight_mask(sq) ==
    LET knight_sq == SQUARES[sq]
        m1 == or64({}, and64(shl64(knight_sq, 17), not64(FILE_A)))
        m2 == or64(m1, and64(shl64(knight_sq, 10), not64(or64(FILE_A, FILE_B))))
        m3 == or64(m2, and64(shr64(knight_sq, 6), not64(or64(FILE_A, FILE_B))))
        m4 == or64(m3, and64(shr64(knight_sq, 15), not64(FILE_A)))
        m5 == or64(m4, and64(shl64(knight_sq, 15), not64(FILE_H)))
        m6 == or64(m5, and64(shl64(knight_sq, 6), not64(or64(FILE_H, FILE_G))))
        m7 == or64(m6, and64(shr64(knight_sq, 10), not64(or64(FILE_H, FILE_G))))
        m8 == or64(m7, and64(shr64(knight_sq, 17), not64(FILE_H)))
    IN  m8

\* make_knight_move_masks
KNIGHT_MOVES == [i \in BitIdx |-> make_knight_mask(i)]

-----------------------------------------------------------------------------
(* bits/biterator.rs *)

biterator(bb) == [bb |-> bb]
bitboarderator(bb) == [bb |-> bb]

\* next(): <<the item returned, the iterator after the call>>
BitErator_next(self) ==
    IF self.bb = {} THEN <<None, self>>
    ELSE LET lsb_idx == bitscan(self.bb)
         IN  <<Some(lsb_idx), [bb |-> xor64(self.bb, lsb_mask(self.bb))]>>

BitBoardErator_next(self) ==
    IF self.bb = {} THEN <<None, self>>
    ELSE LET mask == lsb_mask(self.bb)
         IN  <<Some(mask), [bb |-> xor64(self.bb, mask)]>>

-----------------------------------------------------------------------------
(* The bits specification: words are scanned and iterated, knight masks looked up *)

\* the bits the iterated words are made of: both ends of the word and of its halves
IterBits == {0, 1, 8, 31, 32, 62, 63}

\* every word over those bits, the zero word among them, and the word of 64 ones
BitWords == (SUBSET IterBits) \cup {BitIdx}

\* biterator(bb)
Biterator(bb) ==
    /\ iter = NoIter /\ call = NoCall
    /\ iter' = [kind |-> "BitErator", word |-> bb, bb |-> biterator(bb).bb,
                items |-> <<>>, done |-> FALSE]
    /\ UNCHANGED <<game_vars, gs, call, panicked>>

\* bitboarderator(bb)
Bitboarderator(bb) ==
    /\ iter = NoIter /\ call = NoCall
    /\ iter' = [kind |-> "BitBoardErator", word |-> bb, bb |-> bitboarderator(bb).bb,
                items |-> <<>>, done |-> FALSE]
    /\ UNCHANGED <<game_vars, gs, call, panicked>>

\* one call of next() in a for loop over the iterator: the loop ends on None
IterNext ==
    /\ iter.kind # ""
    /\ ~iter.done
    /\ LET stepped == IF iter.kind = "BitErator" THEN BitErator_next([bb |-> iter.bb])
                      ELSE BitBoardErator_next([bb |-> iter.bb])
       IN  iter' = [iter EXCEPT !.bb = stepped[2].bb,
                                !.items = IF is_some(stepped[1]) THEN Append(@, unwrap(stepped[1])) ELSE @,
                                !.done = ~is_some(stepped[1])]
    /\ UNCHANGED <<game_vars, gs, call, panicked>>

\* lsb_mask(bb)
LsbMask(bb) ==
    /\ iter = NoIter /\ call = NoCall
    /\ call' = [fn |-> "lsb_mask", args |-> <<bb>>, before |-> <<>>, ret |-> lsb_mask(bb)]
    /\ UNCHANGED <<game_vars, gs, iter, panicked>>

\* KNIGHT_MOVES[sq]
KnightMoves(sq) ==
    /\ iter = NoIter /\ call = NoCall
    /\ call' = [fn |-> "KNIGHT_MOVES", args |-> <<sq>>, before |-> <<>>, ret |-> KNIGHT_MOVES[sq]]
    /\ UNCHANGED <<game_vars, gs, iter, panicked>>

\* the only subtraction is an explicit wrapping_sub: one build profile
InitBits == Idle /\ overflow_checks

NextBits ==
    \/ \E bb \in BitWords : Biterator(bb)
    \/ \E bb \in BitWords : Bitboarderator(bb)
    \/ IterNext
    \/ \E bb \in BitWords : LsbMask(bb)
    \/ \E sq \in BitIdx : KnightMoves(sq)

SpecBits == InitBits /\ [][NextBits]_vars

-----------------------------------------------------------------------------
(* C34: the bit iterators *)

\* the lowest set bit of a word that is not zero
Lowest(w) == CHOOSE i \in w : \A j \in w : i <= j

\* the indices of the set bits of w from the least significant to the most
RECURSIVE Ascending(_)
Ascending(w) == IF w = {} THEN <<>> ELSE <<Lowest(w)>> \o Ascending(w \ {Lowest(w)})

\* C34: iterating biterator(w) ends after exactly popcount(w) items, the indices of
\* the set bits of w in strictly increasing order (nothing for w = 0);
\* bitboarderator(w) yields in the same order the single-bit words 1 << i of those
\* indices; lsb_mask(0) is 0 and lsb_mask(w) is the lowest set bit of w otherwise.
C34_BitIteration ==
    /\ iter.kind # "" =>
           LET all == Ascending(iter.word)
               n == Len(iter.items)
           IN  /\ n <= Cardinality(iter.word)
               /\ \A i \in 1 .. n :
                      iter.items[i] = IF iter.kind = "BitErator" THEN all[i] ELSE SQUARES[all[i]]
               /\ \A i \in 1 .. (n - 1) : all[i] < all[i + 1]
               /\ iter.done => n = Cardinality(iter.word)
               /\ n = Cardinality(iter.word) => iter.bb = {}
               /\ iter.bb = {} => BitErator_next([bb |-> iter.bb])[1] = None
                                  /\ BitBoardErator_next([bb |-> iter.bb])[1] = None
    /\ call.fn = "lsb_mask" =>
           call.ret = IF call.args[1] = {} THEN {} ELSE {Lowest(call.args[1])}

\* the word of 64 ones iterated to its end
C34_Witness ==
    /\ iter.kind = "BitErator" /\ iter.word = BitIdx /\ iter.done
    /\ Len(iter.items) = 64 /\ iter.items[1] = 0 /\ iter.items[64] = 63

-----------------------------------------------------------------------------
(* C35: the knight masks *)

Distance(a, b) == IF a >= b THEN a - b ELSE b - a

\* t is a knight's move away from s on the board
KnightStep(s, t) ==
    LET ranks == Distance(rank_idx(s), rank_idx(t))
        files == Distance(file_idx(s), file_idx(t))
    IN  (ranks = 1 /\ files = 2) \/ (ranks = 2 /\ files = 1)

\* C35: for every square s in 0..63, KNIGHT_MOVES[s] has bit t set exactly when t is
\* a square in 0..63 whose rank and file differ from those of s by (1, 2) or (2, 1);
\* no mask holds a square reached by wrapping across a board edge, nor s itself.
C35_KnightMasks ==
    call.fn = "KNIGHT_MOVES" =>
        LET s == call.args[1]
        IN  /\ call.ret \subseteq BitIdx
            /\ \A t \in BitIdx : t \in call.ret <=> KnightStep(s, t)
            /\ s \notin call.ret

\* the knight on h1 (7) reaches f2 (13) and g3 (22) only: 7 + 10 = 17 and 7 + 17 = 24
\* would be reached across the edge
C35_Witness ==
    /\ call.fn = "KNIGHT_MOVES" /\ call.args = <<7>>
    /\ call.ret = {13, 22}
    /\ 17 \in make_knight_mask_unmasked(7) /\ 24 \in make_knight_mask_unmasked(7)

-----------------------------------------------------------------------------
(* C36: the size of the history stack *)

\* the call just made was Game::unmake
JustUnmade == calls >= 1 /\ game_move = None

\* C36: in every state of a Game reached by make and unmake calls (each make
\* returning), the history stack holds at least one position and its size is
\* depth_from_start + 1, so current_state() returns a position; unmake() on a Game
\* with no outstanding moves does not abort and leaves the starting position current.
C36_StackSizeIsDepthPlusOne ==
    /\ Running =>
           /\ size >= 1
           /\ size = depth_from_start + 1
           /\ is_some(peek(stack))
    /\ (JustUnmade /\ calls = 1) =>
           /\ Running
           /\ is_some(peek(stack))
           /\ peek(stack) = Some(value(parse_fen(fen, overflow_checks)))

-----------------------------------------------------------------------------
(* C37: castling and the number of pieces *)

\* C37: castling only relocates one king and one rook: for every position and every
\* KingCastle or QueenCastle move, each of the 12 occupancy words of the result has
\* as many set bits as that of the input; make never creates a piece, so the total
\* number of set bits never increases along a sequence of make calls.
C37_CastlingKeepsCounts ==
    /\ (JustMade /\ IsCastleCode) =>
           \A k \in Pieces : Cardinality(After.bbs[k]) = Cardinality(Before.bbs[k])
    /\ JustMade => TotalBits(After) <= TotalBits(Before)

-----------------------------------------------------------------------------
(* move_list.rs: MoveList *)

MoveList_new == [backing |-> [i \in 0 .. 255 |-> 65535], size |-> 0]

\* size must be below 256 (the index the code would abort on): the lists built here
\* hold one move for each pawn at most
MoveList_push(self, elt) ==
    [backing |-> [self.backing EXCEPT ![self.size] = elt], size |-> self.size + 1]

-----------------------------------------------------------------------------
(* move_gen.rs: move_gen_utils::append_pawn_double_pushes *)

\* lines 73-80: the loop over biterator(push_mask)
RECURSIVE double_push_loop(_, _, _)
double_push_loop(move_list, it, white_to_move) ==
    LET stepped == BitErator_next(it)
    IN  IF ~is_some(stepped[1]) THEN move_list
        ELSE LET move_sq == unwrap(stepped[1])
                 push_move == IF white_to_move
                              THEN GameMove_new(move_sq - 16, move_sq, DoublePawnPush)
                              ELSE GameMove_new(move_sq + 16, move_sq, DoublePawnPush)
             IN  double_push_loop(MoveList_push(move_list, push_move), stepped[2], white_to_move)

append_pawn_double_pushes(move_list, pushable_pawns, total_occupancy, white_to_move) ==
    LET started_pawns == IF white_to_move THEN and64(pushable_pawns, RANK_2)
                         ELSE and64(pushable_pawns, RANK_7)
        not_blocked == IF white_to_move
                       THEN and64(started_pawns,
                                  not64(or64(shl64(total_occupancy, 8), shl64(total_occupancy, 16))))
                       ELSE and64(started_pawns,
                                  not64(or64(shr64(total_occupancy, 8), shr64(total_occupancy, 16))))
        push_mask == IF white_to_move THEN shl64(not_blocked, 16) ELSE shr64(not_blocked, 16)
    IN  double_push_loop(move_list, biterator(push_mask), white_to_move)

-----------------------------------------------------------------------------
(* The move generation specification: double pawn pushes are listed *)

\* where the pawns to push stand: b2, e2 and e3 (off the start rank) for white, e6,
\* b7 and e7 for black
PawnSquares == {9, 12, 20, 44, 49, 52}

\* where other pieces stand: behind the e-pawns (e1, e8), one and two squares ahead
\* of the b-pawns (b3, b4, b6, b5) and two squares ahead of the e-pawns (e4, e5)
OtherSquares == {4, 17, 25, 28, 33, 36, 41, 60}

\* append_pawn_double_pushes(&mut MoveList::new(), pushable_pawns, total_occupancy,
\* white_to_move), the pawns themselves being part of the occupancy
AppendPawnDoublePushes(pushable_pawns, others, white_to_move) ==
    /\ call = NoCall
    /\ LET total_occupancy == pushable_pawns \cup others
       IN  call' = [fn |-> "append_pawn_double_pushes",
                    args |-> <<pushable_pawns, total_occupancy, white_to_move>>,
                    before |-> MoveList_new,
                    ret |-> append_pawn_double_pushes(MoveList_new, pushable_pawns,
                                                      total_occupancy, white_to_move)]
    /\ UNCHANGED <<game_vars, gs, iter, panicked>>

\* the square arithmetic stays within the board: one build profile
InitGen == Idle /\ overflow_checks

NextGen ==
    call = NoCall /\ \E pushable_pawns \in SUBSET PawnSquares, others \in SUBSET OtherSquares,
                        white_to_move \in BOOLEAN :
                         AppendPawnDoublePushes(pushable_pawns, others, white_to_move)

SpecGen == InitGen /\ [][NextGen]_vars

-----------------------------------------------------------------------------
(* C38: double pawn pushes *)

\* the square n ranks ahead of s for the side to move
Ahead(s, n, white_to_move) == IF white_to_move THEN s + 8 * n ELSE s - 8 * n

\* the pawns that may be pushed two squares
DoublePushable(pushable_pawns, total_occupancy, white_to_move) ==
    {s \in pushable_pawns :
        /\ s \in (IF white_to_move THEN RANK_2 ELSE RANK_7)
        /\ Ahead(s, 1, white_to_move) \notin total_occupancy
        /\ Ahead(s, 2, white_to_move) \notin total_occupancy}

\* C38: append_pawn_double_pushes appends a DoublePawnPush move from s to s + 16
\* (white) or s - 16 (black) exactly for the pushable pawns s that stand on their
\* start rank and whose two squares ahead are both unoccupied in total_occupancy; no
\* double push goes through or onto an occupied square.
C38_DoublePushes ==
    call.fn = "append_pawn_double_pushes" =>
        LET pushable_pawns == call.args[1]
            total_occupancy == call.args[2]
            white_to_move == call.args[3]
            appended == {call.ret.backing[i] : i \in 0 .. (call.ret.size - 1)}
            expected == DoublePushable(pushable_pawns, total_occupancy, white_to_move)
        IN  /\ appended = {GameMove_new(s, Ahead(s, 2, white_to_move), DoublePawnPush) :
                              s \in expected}
            /\ call.ret.size = Cardinality(expected)

====
